---- MODULE Spec2Model ----
(***************************************************************************)
(* Model of wisdem/rotorse/rotor_structure.py: the structural components   *)
(* of the rotor (laminate resizing, beam strain/damage recovery, blade     *)
(* curvature, curved-beam mode shapes, structural margins) and the wiring  *)
(* of the RotorStructure group.                                            *)
(*                                                                         *)
(* Floating-point values are modelled as extended rationals: a record      *)
(* [n, d] in lowest terms with d >= 0, where d = 0 stands for the IEEE     *)
(* specials numpy produces instead of raising: 1/0 = +inf, -1/0 = -inf,    *)
(* 0/0 = nan.                                                              *)
(***************************************************************************)
EXTENDS Integers, Sequences, FiniteSets, TLC

\* ------------------------------------------------------------------------
\* Bounds of the model
\* ------------------------------------------------------------------------

\* number of spanwise stations (the NPTS option of every component)
NPTS == 1

\* how many times the driver re-runs a component on the same inputs
MaxCalls == 2
\* stations of the blade handed to BladeCurvature
CurvPts == 3

Stations == 1..NPTS

\* ------------------------------------------------------------------------
\* Extended rational arithmetic (numpy float64 semantics without rounding)
\* ------------------------------------------------------------------------

IAbs(x) == IF x < 0 THEN -x ELSE x

Sgn(x) == IF x > 0 THEN 1 ELSE IF x < 0 THEN -1 ELSE 0

RECURSIVE Gcd(_, _)
Gcd(a, b) == IF b = 0 THEN a ELSE Gcd(b, a % b)

\* the value n/d in lowest terms; n/0 is +inf, -inf or nan by the sign of n
Q(n, d) ==
    IF d = 0 THEN [n |-> Sgn(n), d |-> 0]
    ELSE LET g == Gcd(IAbs(n), IAbs(d))
             s == Sgn(d)
         IN  [n |-> s * (n \div g), d |-> s * (d \div g)]

R(i) == [n |-> i, d |-> 1]

Zero == R(0)
One == R(1)
PosInf == [n |-> 1, d |-> 0]
NegInf == [n |-> -1, d |-> 0]
NaN == [n |-> 0, d |-> 0]

IsFinite(a) == a.d # 0
IsNaN(a) == a.d = 0 /\ a.n = 0

RNeg(a) == [n |-> -a.n, d |-> a.d]

RAbs(a) == [n |-> IAbs(a.n), d |-> a.d]

RAdd(a, b) ==
    IF a.d = 0 /\ b.d = 0
    THEN (IF a.n = b.n THEN a ELSE NaN)
    ELSE Q(a.n * b.d + b.n * a.d, a.d * b.d)

RSub(a, b) == RAdd(a, RNeg(b))

\* cross-reduced first so that the products stay small
RMul(a, b) ==
    IF a.d = 0 \/ b.d = 0
    THEN Q(a.n * b.n, 0)
    ELSE LET g1 == Gcd(IAbs(a.n), b.d)
             g2 == Gcd(IAbs(b.n), a.d)
         IN  Q((a.n \div g1) * (b.n \div g2), (a.d \div g2) * (b.d \div g1))

RInv(a) == Q(a.d * Sgn(a.n), IAbs(a.n))

\* x/0 = +-inf, 0/0 = nan, x/inf = 0, inf/inf = nan
RDiv(a, b) ==
    IF b.n = 0 /\ b.d # 0 THEN Q(a.n, 0)
    ELSE IF b.d = 0 THEN (IF a.d = 0 \/ b.n = 0 THEN NaN ELSE Zero)
    ELSE RMul(a, RInv(b))

RLt(a, b) == a.n * b.d < b.n * a.d

RLe(a, b) == a.n * b.d <= b.n * a.d

RECURSIVE RSum(_)
RSum(s) == IF s = <<>> THEN Zero ELSE RAdd(Head(s), RSum(Tail(s)))

\* every element of the sequence s multiplied by c
Scaled(s, c) == [k \in 1..Len(s) |-> RMul(s[k], c)]

\* floor of the square root of the natural number n, by bisection on [lo, hi]
RECURSIVE ISqrtIn(_, _, _)
ISqrtIn(n, lo, hi) ==
    IF lo >= hi THEN lo
    ELSE LET mid == (lo + hi + 1) \div 2
         IN  IF mid * mid <= n THEN ISqrtIn(n, mid, hi) ELSE ISqrtIn(n, lo, mid - 1)

ISqrt(n) == ISqrtIn(n, 0, IF n < 46340 THEN n ELSE 46340)

IsSquare(n) == ISqrt(n) * ISqrt(n) = n

\* np.sqrt: exact when numerator and denominator are perfect squares, rounded
\* down to two decimals otherwise; nan for a negative argument
RSqrt(a) ==
    IF a.d = 0 THEN (IF a.n > 0 THEN PosInf ELSE NaN)
    ELSE IF a.n < 0 THEN NaN
    ELSE IF IsSquare(a.n) /\ IsSquare(a.d) THEN Q(ISqrt(a.n), ISqrt(a.d))
    ELSE Q(ISqrt((a.n * 10000) \div a.d), 100)

\* ------------------------------------------------------------------------
\* Angles and logarithms
\* ------------------------------------------------------------------------

\* the half angle of the direction (x, y) of length h > 0, in (-pi/2, pi/2]:
\* cos = sqrt((h + x)/(2h)), |sin| = sqrt((h - x)/(2h)), sin signed as y
HalfAngle(y, x, h) ==
    [c |-> RSqrt(RDiv(RAdd(h, x), RMul(R(2), h))),
     s |-> IF y.n < 0 THEN RNeg(RSqrt(RDiv(RSub(h, x), RMul(R(2), h))))
           ELSE RSqrt(RDiv(RSub(h, x), RMul(R(2), h)))]

\* mutant of HalfArctan2: the arguments of arctan2 exchanged
HalfArctan2_swapped(y, x) ==
    IF ~IsFinite(y) \/ ~IsFinite(x) THEN [c |-> NaN, s |-> NaN]
    ELSE IF y = Zero /\ x = Zero THEN [c |-> One, s |-> Zero]
    ELSE HalfAngle(x, y, RSqrt(RAdd(RMul(x, x), RMul(y, y))))

\* 0.5*np.arctan2(y, x): the angle alpha in (-pi/2, pi/2], held as the pair
\* [c, s] = (cos alpha, sin alpha); arctan2(0, 0) = 0
HalfArctan2(y, x) ==
    IF ~IsFinite(y) \/ ~IsFinite(x) THEN [c |-> NaN, s |-> NaN]
    ELSE IF y = Zero /\ x = Zero THEN [c |-> One, s |-> Zero]
    ELSE HalfAngle(y, x, RSqrt(RAdd(RMul(x, x), RMul(y, y))))

Cos(alpha) == alpha.c

Sin(alpha) == alpha.s

\* np.tan; np.tan(pi/2) is a large finite float (1.6e16), not an infinity
Tan(alpha) ==
    IF alpha.c = Zero THEN RMul(alpha.s, R(16331239)) ELSE RDiv(alpha.s, alpha.c)

\* A logarithm is held by its argument: [ln |-> a] stands for ln(a), with
\* a = 0 for -inf, a = +inf for +inf and a = nan for nan, so that sums and
\* differences of logarithms are products and quotients of the arguments.

\* np.log: ln(0) = -inf and the log of a negative number is nan
Ln(a) == [ln |-> IF a.n < 0 THEN NaN ELSE a]

\* ln a - ln b
LnSub(a, b) == [ln |-> RDiv(a.ln, b.ln)]

RECURSIVE RPow(_, _)
RPow(a, m) == IF m = 0 THEN One ELSE RMul(a, RPow(a, m - 1))

\* m * ln a, for a natural number m >= 1
LnTimes(m, a) == [ln |-> RPow(a.ln, m)]

\* ------------------------------------------------------------------------
\* State
\* ------------------------------------------------------------------------

VARIABLES
    \* the CompositeSection objects: object id -> its attribute t, a list
    \* (one entry per sector) of arrays of ply thicknesses
    heap,
    \* ResizeCompositeSection: inputs
    chord, chord_ref, sparT, teT,
    upperCS_in, lowerCS_in, websCS_in,
    sector_idx_strain_spar, sector_idx_strain_te,
    \* ResizeCompositeSection: discrete outputs (lists of object ids)
    upperCS, lowerCS, websCS,
    \* number of compute() calls made, the thicknesses held by the objects
    \* when the latest call started, and those the first call produced
    resize_calls, t_prev, t_first,
    \* RotorWithpBEAM: inputs (StrucBase.setup), arrays over the stations
    beam_EA, beam_EIxx, beam_EIyy, beam_EIxy, beam_x_ec, beam_y_ec,
    xu_strain_spar, xl_strain_spar, yu_strain_spar, yl_strain_spar,
    xu_strain_te, xl_strain_te, yu_strain_te, yl_strain_te,
    Mx_damage, My_damage,
    strain_ult_spar, strain_ult_te, gamma_fatigue, m_damage, lifetime,
    \* what the beam solver returns from blade.shearAndBending() for the
    \* beam loaded with P_strain: per station a record [Fz, Mx, My]
    shearAndBending,
    \* RotorWithpBEAM: instance fields (None after setup)
    EI11, EI22, EA, ca, sa,
    \* RotorWithpBEAM: outputs
    strainU_spar, strainL_spar, strainU_te, strainL_te,
    damageU_spar, damageL_spar, damageU_te, damageL_te,
    \* stiffnesses about the elastic center handed to the principal-axis
    \* computation on its own
    pa_EIxx, pa_EIyy, pa_EIxy,
    \* the components other than the two above whose compute has run
    computed,
    \* BladeCurvature: inputs r, precurve, presweep and output s
    curv_r, curv_precurve, curv_presweep, curv_s,
    \* RotorStructure: the loads output by aero_0, aero_120, aero_240 and
    \* aero_rated, the outputs of curvature with r_pts, and per RootMoment
    \* component its aeroloads inputs and its outputs Mxyz, Fxyz
    loads, root_geom, aeroloads, Mxyz, Fxyz,
    \* CurveFEM: what the eigen solver and the three curve_fit calls return,
    \* and the outputs freq (connected to freq_curvefem) and modes_coef
    eig_freq, fit_coef, freq_curvefem, modes_coef,
    \* ConstraintsStructures: inputs besides the strains, damages and
    \* ultimate strains above, and outputs
    nBlades, freq, Omega, gamma_f, gamma_m, gamma_freq,
    eps_crit_spar, eps_crit_te,
    Pn_margin, P1_margin, Pn_margin_cfem, P1_margin_cfem,
    \* self.J of ConstraintsStructures, its four entries (margin, 'Omega')
    J_Omega,
    rotor_strain_sparU, rotor_strain_sparL, rotor_strain_teU, rotor_strain_teL,
    rotor_buckling_sparU, rotor_buckling_sparL,
    rotor_buckling_teU, rotor_buckling_teL,
    rotor_damage_sparU, rotor_damage_sparL, rotor_damage_teU, rotor_damage_teL,
    \* PreCompSections: of the upper-surface CompositeSection of each station,
    \* the sector boundaries loc and, per sector, what compositeMatrices and
    \* effectiveEAxial return (D[0,0], D[1,1], D[0,1], D[2,2], totalHeight, E)
    upper_loc, upper_lam,
    \* PreCompSections: per station the sector boundaries loc and the laminates
    \* of the lower surface stack lowerCS[i], the airfoil profile (x, yu, yl)
    \* and the elastic centre relative to the nose (x_ec_nose, y_ec_nose)
    lower_loc, lower_lam, profile, ec_nose,
    \* TipDeflection: its inputs, a record with one field per input, and its
    \* three outputs
    tip_inputs, tip_deflection, tip_position, ground_clearance,
    \* RotorWithpBEAM: the distributed loads of its three load cases, each a
    \* record of the arrays Px, Py, Pz, and the queries compute has made of
    \* the beam solver, each with the loads its Beam instance was built with
    P_defl, P_pc_defl, P_strain, beam_queries,
    \* the writes and reads of the instance fields EI11, EI22, EA, ca, sa in
    \* the last execution of RotorWithpBEAM.compute, in their order
    field_trace,
    \* CurveFEM: the exceptions that escaped its compute
    cfem_raised,
    \* OutputsStructures: its inputs nBlades, Fxyz_k_in and Mxyz_k_in
    \* (k = 1..6) in one record, its outputs Fxyz_k and Mxyz_k, Fxyz_total
    \* and Mxyz_total, and the frame rotations it has applied, each with the
    \* frame of the vector it was applied to
    \* ExtremeLoads: its inputs T, Q, nBlades and its two outputs
    extreme_inputs, T_extreme, Q_extreme,
    outs_inputs, Fxyz_k, Mxyz_k, Fxyz_total, Mxyz_total, frame_uses

resizeVars == <<heap, chord, chord_ref, sparT, teT, upperCS_in, lowerCS_in,
                websCS_in, sector_idx_strain_spar, sector_idx_strain_te,
                upperCS, lowerCS, websCS, resize_calls, t_prev, t_first>>

strucInputs == <<beam_EA, beam_EIxx, beam_EIyy, beam_EIxy, beam_x_ec, beam_y_ec,
                 xu_strain_spar, xl_strain_spar, yu_strain_spar, yl_strain_spar,
                 xu_strain_te, xl_strain_te, yu_strain_te, yl_strain_te,
                 Mx_damage, My_damage, strain_ult_spar, strain_ult_te,
                 gamma_fatigue, m_damage, lifetime, shearAndBending,
                 P_defl, P_pc_defl, P_strain>>

strucFields == <<EI11, EI22, EA, ca, sa>>

strucOutputs == <<strainU_spar, strainL_spar, strainU_te, strainL_te,
                  damageU_spar, damageL_spar, damageU_te, damageL_te,
                  beam_queries, field_trace>>

paInputs == <<pa_EIxx, pa_EIyy, pa_EIxy>>

curvVars == <<curv_r, curv_precurve, curv_presweep, curv_s>>

rootVars == <<loads, root_geom, aeroloads, Mxyz, Fxyz>>

cfemVars == <<eig_freq, fit_coef, modes_coef, cfem_raised>>

precompVars == <<upper_loc, upper_lam, lower_loc, lower_lam, profile, ec_nose>>

tipVars == <<tip_inputs, tip_deflection, tip_position, ground_clearance>>

extremeVars == <<extreme_inputs, T_extreme, Q_extreme>>

outsVars == <<outs_inputs, Fxyz_k, Mxyz_k, Fxyz_total, Mxyz_total, frame_uses>>

consInputs == <<nBlades, freq, Omega, gamma_f, gamma_m, gamma_freq,
                eps_crit_spar, eps_crit_te>>

consOutputs == <<Pn_margin, P1_margin, Pn_margin_cfem, P1_margin_cfem, J_Omega,
                 rotor_strain_sparU, rotor_strain_sparL,
                 rotor_strain_teU, rotor_strain_teL,
                 rotor_buckling_sparU, rotor_buckling_sparL,
                 rotor_buckling_teU, rotor_buckling_teL,
                 rotor_damage_sparU, rotor_damage_sparL,
                 rotor_damage_teU, rotor_damage_teL>>

\* what the actions of ResizeCompositeSection and RotorWithpBEAM never touch
otherVars == <<computed, curvVars, rootVars, cfemVars, freq_curvefem,
               consInputs, consOutputs, precompVars, tipVars, extremeVars, outsVars>>

vars == <<resizeVars, strucInputs, strucFields, strucOutputs, paInputs,
          otherVars>>

\* the components a specification does not run
ResizeIdle ==
    /\ heap = <<>> /\ chord = <<>> /\ chord_ref = <<>> /\ sparT = <<>>
    /\ teT = <<>> /\ upperCS_in = <<>> /\ lowerCS_in = <<>> /\ websCS_in = <<>>
    /\ sector_idx_strain_spar = <<>> /\ sector_idx_strain_te = <<>>
    /\ upperCS = <<>> /\ lowerCS = <<>> /\ websCS = <<>>
    /\ resize_calls = 0 /\ t_prev = <<>> /\ t_first = <<>>

StrucIdle ==
    /\ beam_EA = <<>> /\ beam_EIxx = <<>> /\ beam_EIyy = <<>> /\ beam_EIxy = <<>>
    /\ beam_x_ec = <<>> /\ beam_y_ec = <<>>
    /\ xu_strain_spar = <<>> /\ xl_strain_spar = <<>>
    /\ yu_strain_spar = <<>> /\ yl_strain_spar = <<>>
    /\ xu_strain_te = <<>> /\ xl_strain_te = <<>>
    /\ yu_strain_te = <<>> /\ yl_strain_te = <<>>
    /\ Mx_damage = <<>> /\ My_damage = <<>>
    /\ strain_ult_spar = Zero /\ strain_ult_te = Zero /\ gamma_fatigue = Zero
    /\ m_damage = 0 /\ lifetime = Zero
    /\ shearAndBending = <<>>
    /\ P_defl = <<>> /\ P_pc_defl = <<>> /\ P_strain = <<>>
    /\ beam_queries = <<>> /\ field_trace = <<>>
    /\ strainU_spar = <<>> /\ strainL_spar = <<>>
    /\ strainU_te = <<>> /\ strainL_te = <<>>
    /\ damageU_spar = <<>> /\ damageL_spar = <<>>
    /\ damageU_te = <<>> /\ damageL_te = <<>>

\* Python's None, as the instance fields hold it until compute runs
None == <<>>

FieldsNone ==
    /\ EI11 = None /\ EI22 = None /\ EA = None
    /\ ca = None /\ sa = None

PaIdle == pa_EIxx = <<>> /\ pa_EIyy = <<>> /\ pa_EIxy = <<>>

CurvIdle ==
    /\ curv_r = <<>> /\ curv_precurve = <<>> /\ curv_presweep = <<>>
    /\ curv_s = <<>>

RootIdle ==
    /\ loads = <<>> /\ root_geom = <<>> /\ aeroloads = <<>>
    /\ Mxyz = <<>> /\ Fxyz = <<>>

CfemIdle ==
    /\ eig_freq = <<>> /\ fit_coef = <<>> /\ modes_coef = <<>>
    /\ cfem_raised = {}

ConsIdle ==
    /\ nBlades = 0 /\ freq = <<>> /\ Omega = Zero
    /\ gamma_f = Zero /\ gamma_m = Zero /\ gamma_freq = Zero
    /\ eps_crit_spar = <<>> /\ eps_crit_te = <<>>
    /\ Pn_margin = <<>> /\ P1_margin = <<>>
    /\ Pn_margin_cfem = <<>> /\ P1_margin_cfem = <<>>
    /\ rotor_strain_sparU = <<>> /\ rotor_strain_sparL = <<>>
    /\ rotor_strain_teU = <<>> /\ rotor_strain_teL = <<>>
    /\ rotor_buckling_sparU = <<>> /\ rotor_buckling_sparL = <<>>
    /\ rotor_buckling_teU = <<>> /\ rotor_buckling_teL = <<>>
    /\ rotor_damage_sparU = <<>> /\ rotor_damage_sparL = <<>>
    /\ rotor_damage_teU = <<>> /\ rotor_damage_teL = <<>>
    /\ J_Omega = <<>>

PrecompIdle ==
    /\ upper_loc = <<>> /\ upper_lam = <<>>
    /\ lower_loc = <<>> /\ lower_lam = <<>> /\ profile = <<>> /\ ec_nose = <<>>

\* val=0.0 and val=np.zeros(3) of the outputs
TipIdle ==
    /\ tip_inputs = <<>> /\ tip_deflection = Zero
    /\ tip_position = <<Zero, Zero, Zero>> /\ ground_clearance = Zero

ExtremeIdle ==
    /\ extreme_inputs = <<>>
    /\ T_extreme = Zero
    /\ Q_extreme = Zero

OutsIdle ==
    /\ outs_inputs = <<>> /\ Fxyz_k = <<>> /\ Mxyz_k = <<>>
    /\ Fxyz_total = <<Zero, Zero, Zero>> /\ Mxyz_total = <<Zero, Zero, Zero>>
    /\ frame_uses = {}

OtherIdle ==
    /\ computed = {} /\ CurvIdle /\ RootIdle /\ CfemIdle
    /\ freq_curvefem = <<>> /\ ConsIdle /\ PrecompIdle /\ TipIdle /\ ExtremeIdle /\ OutsIdle

\* ------------------------------------------------------------------------
\* ResizeCompositeSection
\* ------------------------------------------------------------------------

\* sector indices (0-based) of an upper or lower CompositeSection
SectorIdx == {0, 1}

UpperLayups ==
    { << <<R(a), R(1)>>, <<R(c)>> >> : a \in {1, 2}, c \in {0, 1} }

LowerLayups ==
    { << <<R(a), R(1)>>, <<R(1)>> >> : a \in {1, 2} }

WebLayups == { << <<R(1)>> >> }

ObjU(i) == <<"upper", i>>
ObjL(i) == <<"lower", i>>
ObjW(i) == <<"webs", i>>

Objects == { <<s, i>> : s \in {"upper", "lower", "webs"}, i \in Stations }

\* [m*factor for m in t]
ScaleAll(t, c) == [k \in 1..Len(t) |-> Scaled(t[k], c)]

\* mutant of ScaleSector: the whole list is multiplied, not one sector
ScaleSector_whole(t, idx, c) == ScaleAll(t, c)

\* t[idx] *= c: the list t with its sector idx (0-based, as in the source)
\* multiplied by c
ScaleSector(t, idx, c) == [t EXCEPT ![idx + 1] = Scaled(t[idx + 1], c)]

\* factor = chord / chord_ref
ResizeFactor(i) == RDiv(chord[i], chord_ref[i])

\* one pass of the loop body for station i on the heap h
ResizeStation(h, i) ==
    LET factor == ResizeFactor(i)
        u0 == ScaleAll(h[upperCS_in[i]], factor)
        l0 == ScaleAll(h[lowerCS_in[i]], factor)
        w0 == ScaleAll(h[websCS_in[i]], factor)
        idx_spar == sector_idx_strain_spar[i]
        idx_te == sector_idx_strain_te[i]
        \* upper and lower have same thickness for this design
        tspar == RSum(u0[idx_spar + 1])
        tte == RSum(u0[idx_te + 1])
        u1 == ScaleSector(u0, idx_spar, RDiv(sparT[i], tspar))
        l1 == ScaleSector(l0, idx_spar, RDiv(sparT[i], tspar))
        u2 == ScaleSector(u1, idx_te, RDiv(teT[i], tte))
        l2 == ScaleSector(l1, idx_te, RDiv(teT[i], tte))
    IN  [h EXCEPT ![upperCS_in[i]] = u2,
                  ![lowerCS_in[i]] = l2,
                  ![websCS_in[i]] = w0]

RECURSIVE ResizeLoop(_, _)
ResizeLoop(h, i) == IF i > NPTS THEN h ELSE ResizeLoop(ResizeStation(h, i), i + 1)

\* ResizeCompositeSection.compute: the stacks are resized in place, in the
\* objects the inputs hold, and the outputs are bound to the same objects
ResizeCompute ==
    /\ resize_calls < MaxCalls
    /\ heap' = ResizeLoop(heap, 1)
    /\ upperCS' = upperCS_in
    /\ lowerCS' = lowerCS_in
    /\ websCS' = websCS_in
    /\ resize_calls' = resize_calls + 1
    /\ t_prev' = heap
    /\ t_first' = IF resize_calls = 0 THEN heap' ELSE t_first
    /\ UNCHANGED <<chord, chord_ref, sparT, teT, upperCS_in, lowerCS_in,
                   websCS_in, sector_idx_strain_spar, sector_idx_strain_te>>
    /\ UNCHANGED <<strucInputs, strucFields, strucOutputs, paInputs, otherVars>>

\* ------------------------------------------------------------------------
\* Properties of ResizeCompositeSection
\* ------------------------------------------------------------------------

\* thickness sum of sector idx of the object o, now and when the latest call
\* started
SectorSum(o, idx) == RSum(heap[o][idx + 1])
BaseSum(o, idx) == RSum(t_prev[o][idx + 1])

\* a thickness sum a sector can be rescaled from: a non-zero number
NonZero(x) == IsFinite(x) /\ x # Zero

\* C1: a second compute() on the same input objects yields the same ply
\* thicknesses in upperCS, lowerCS and websCS as the first one did.
C1_SecondCallSameOutput ==
    resize_calls >= 2 =>
        \A i \in Stations :
            /\ heap[upperCS[i]] = t_first[upperCS[i]]
            /\ heap[lowerCS[i]] = t_first[lowerCS[i]]
            /\ heap[websCS[i]] = t_first[websCS[i]]

\* C2 as stated: after compute(), at every station whose spar and
\* trailing-edge sectors had a non-zero thickness sum, the spar sector sums
\* to sparT[i] and the trailing-edge sector to teT[i], on the upper and on
\* the lower stack, whatever the layups and the sector indices.
C2_SectorsMeetTargets ==
    resize_calls >= 1 =>
        \A i \in Stations :
            LET sp == sector_idx_strain_spar[i]
                te == sector_idx_strain_te[i]
            IN  (/\ NonZero(BaseSum(upperCS[i], sp))
                 /\ NonZero(BaseSum(upperCS[i], te))
                 /\ NonZero(BaseSum(lowerCS[i], sp))
                 /\ NonZero(BaseSum(lowerCS[i], te)))
                => /\ SectorSum(upperCS[i], sp) = sparT[i]
                   /\ SectorSum(lowerCS[i], sp) = sparT[i]
                   /\ SectorSum(upperCS[i], te) = teT[i]
                   /\ SectorSum(lowerCS[i], te) = teT[i]

\* C2 as amended: at every station whose spar and trailing-edge sectors are
\* distinct sectors with a non-zero thickness sum on the upper stack, the
\* upper stack's spar sector sums to sparT[i] and its trailing-edge sector
\* to teT[i]; the lower stack is scaled by the ratios computed from the
\* upper stack, so its sectors sum to the target times the ratio of the
\* lower to the upper incoming sum (the target itself when the two agree).
C2_UpperMeetsTargets ==
    resize_calls >= 1 =>
        \A i \in Stations :
            LET sp == sector_idx_strain_spar[i]
                te == sector_idx_strain_te[i]
            IN  (/\ sp # te
                 /\ NonZero(BaseSum(upperCS[i], sp))
                 /\ NonZero(BaseSum(upperCS[i], te))
                 /\ IsFinite(BaseSum(lowerCS[i], sp))
                 /\ IsFinite(BaseSum(lowerCS[i], te)))
                => /\ SectorSum(upperCS[i], sp) = sparT[i]
                   /\ SectorSum(upperCS[i], te) = teT[i]
                   /\ SectorSum(lowerCS[i], sp) =
                        RMul(sparT[i], RDiv(BaseSum(lowerCS[i], sp),
                                            BaseSum(upperCS[i], sp)))
                   /\ SectorSum(lowerCS[i], te) =
                        RMul(teT[i], RDiv(BaseSum(lowerCS[i], te),
                                          BaseSum(upperCS[i], te)))

\* a call has resized a station with distinct spar and trailing-edge
\* sectors whose lower spar sector was thicker or thinner than the upper
\* one, at a chord different from the reference chord
C2_Witness ==
    /\ resize_calls >= 1
    /\ \E i \in Stations :
          LET sp == sector_idx_strain_spar[i]
              te == sector_idx_strain_te[i]
          IN  /\ sp # te
              /\ chord[i] # chord_ref[i]
              /\ NonZero(BaseSum(upperCS[i], sp))
              /\ NonZero(BaseSum(upperCS[i], te))
              /\ BaseSum(lowerCS[i], sp) # BaseSum(upperCS[i], sp)
              /\ SectorSum(lowerCS[i], sp) # sparT[i]

\* C3: compute() leaves the thicknesses held by the objects passed as
\* upperCS_in, lowerCS_in and websCS_in as they were before the call.
C3_InputsUnchanged ==
    resize_calls >= 1 =>
        \A i \in Stations :
            /\ heap[upperCS_in[i]] = t_prev[upperCS_in[i]]
            /\ heap[lowerCS_in[i]] = t_prev[lowerCS_in[i]]
            /\ heap[websCS_in[i]] = t_prev[websCS_in[i]]

InitResize ==
    /\ chord \in [Stations -> {R(1), R(2)}]
    /\ chord_ref \in [Stations -> {R(1), R(2)}]
    /\ sparT \in [Stations -> {R(1), R(2)}]
    /\ teT \in [Stations -> {R(3)}]
    /\ sector_idx_strain_spar \in [Stations -> SectorIdx]
    /\ sector_idx_strain_te \in [Stations -> SectorIdx]
    /\ upperCS_in = [i \in Stations |-> ObjU(i)]
    /\ lowerCS_in = [i \in Stations |-> ObjL(i)]
    /\ websCS_in = [i \in Stations |-> ObjW(i)]
    /\ \E u \in [Stations -> UpperLayups], l \in [Stations -> LowerLayups],
          w \in [Stations -> WebLayups] :
          heap = [o \in Objects |->
                    IF o[1] = "upper" THEN u[o[2]]
                    ELSE IF o[1] = "lower" THEN l[o[2]] ELSE w[o[2]]]
    /\ upperCS = <<>>
    /\ lowerCS = <<>>
    /\ websCS = <<>>
    /\ resize_calls = 0
    /\ t_prev = heap
    /\ t_first = <<>>
    /\ StrucIdle /\ FieldsNone /\ PaIdle /\ OtherIdle

NextResize == ResizeCompute

SpecResize == InitResize /\ [][NextResize]_vars


\* ------------------------------------------------------------------------
\* RotorWithpBEAM
\* ------------------------------------------------------------------------

\* self.EI11, self.EI22, self.ca, self.sa for the rotation angle alpha
PrincipalFields(EIxx, EIyy, EIxy, alpha) ==
    [EI11 |-> RSub(EIxx, RMul(EIxy, Tan(alpha))),
     EI22 |-> RAdd(EIyy, RMul(EIxy, Tan(alpha))),
     ca |-> Cos(alpha),
     sa |-> Sin(alpha)]

\* principalCS from "get rotation angle" on, for one station: the angle from
\* the stiffnesses about the elastic center, the principal stiffnesses and
\* the cosine and sine kept for strain() and damage()
PrincipalAxes(EIxx, EIyy, EIxy) ==
    PrincipalFields(EIxx, EIyy, EIxy,
                    HalfArctan2(RMul(R(2), EIxy), RSub(EIyy, EIxx)))

\* the instance fields after principalCS: self.EA with those of PrincipalAxes
WithEA(p_EA, pa) ==
    [EA |-> p_EA, EI11 |-> pa.EI11, EI22 |-> pa.EI22, ca |-> pa.ca, sa |-> pa.sa]

\* principalCS after the renaming, for one station: translate to the elastic
\* center and rotate
TranslateAndRotate(EIxx, EIyy, x_ec, y_ec, p_EA, p_EIxy) ==
    WithEA(p_EA,
           PrincipalAxes(RSub(EIxx, RMul(RMul(y_ec, y_ec), p_EA)),
                         RSub(EIyy, RMul(RMul(x_ec, x_ec), p_EA)),
                         RSub(p_EIxy, RMul(RMul(x_ec, y_ec), p_EA))))

\* principalCS(self, EIyy, EIxx, y_ec, x_ec, EA, EIxy) for one station; the
\* parameters carry the names of the signature (p_ for "parameter"). The
\* renaming binds EIxx = np.copy(EIyy) and then EIyy = np.copy(EIxx), the
\* EIxx just bound, so both locals hold the parameter EIyy; likewise
\* x_ec = np.copy(y_ec), y_ec = np.copy(x_ec) leave both holding y_ec
PrincipalCS(p_EIyy, p_EIxx, p_y_ec, p_x_ec, p_EA, p_EIxy) ==
    TranslateAndRotate(p_EIyy, p_EIyy, p_y_ec, p_y_ec, p_EA, p_EIxy)

\* mutant of StrainAt: the axial term is not divided by EA but added to it
StrainAt_axial(f, M1, M2, Fz, x, y) ==
    RNeg(RAdd(RSub(RMul(RDiv(M1, f.EI11), y), RMul(RDiv(M2, f.EI22), x)),
              RAdd(Fz, f.EA)))

\* -(M1/self.EI11*y - M2/self.EI22*x + Fz/self.EA), with f the instance fields
\* of the station
StrainAt(f, M1, M2, Fz, x, y) ==
    RNeg(RAdd(RSub(RMul(RDiv(M1, f.EI11), y), RMul(RDiv(M2, f.EI22), x)),
              RDiv(Fz, f.EA)))

\* x*self.ca + y*self.sa and -x*self.sa + y*self.ca
Rot1(f, x, y) == RAdd(RMul(x, f.ca), RMul(y, f.sa))
Rot2(f, x, y) == RAdd(RMul(RNeg(x), f.sa), RMul(y, f.ca))

\* the body shared by strain() and damage() for one station, after the
\* exchanges "use profile c.s. to use Hansen's notation": the moments and
\* the points are converted to principal axes, result <<strainU, strainL>>
PrincipalStrain(f, Mx, My, Fz, xu, yu, xl, yl) ==
    <<StrainAt(f, Rot1(f, Mx, My), Rot2(f, Mx, My), Fz,
               Rot1(f, xu, yu), Rot2(f, xu, yu)),
      StrainAt(f, Rot1(f, Mx, My), Rot2(f, Mx, My), Fz,
               Rot1(f, xl, yl), Rot2(f, xl, yl))>>

\* the exchange left out
ProfilePoints_kept(xu, yu, xl, yl) == [xu |-> xu, yu |-> yu, xl |-> xl, yl |-> yl]

\* xu, yu = yu, xu;  xl, yl = yl, xl at the start of strain() and damage():
\* the points as they enter the conversion to principal axes
ProfilePoints(xu, yu, xl, yl) == [xu |-> yu, yu |-> xu, xl |-> yl, yl |-> xl]

\* strain(self, blade, xu, yu, xl, yl) for one station; sb is what
\* blade.shearAndBending() returned there
Strain(f, sb, xu, yu, xl, yl) ==
    \* Mx, My = My, Mx;  xu, yu = yu, xu;  xl, yl = yl, xl
    PrincipalStrain(f, sb.My, sb.Mx, sb.Fz,
                    ProfilePoints(xu, yu, xl, yl).xu, ProfilePoints(xu, yu, xl, yl).yu,
                    ProfilePoints(xu, yu, xl, yl).xl, ProfilePoints(xu, yu, xl, yl).yl)

\* np.log(N) - m*(np.log(emax) - np.log(eta) - np.log(np.abs(strain)))
DamageOf(strain, emax, eta, m, N) ==
    LnSub(Ln(N), LnTimes(m, LnSub(LnSub(Ln(emax), Ln(eta)), Ln(RAbs(strain)))))

\* the damages of the strains <<strainU, strainL>>
DamagePair(e, emax, eta, m, N) ==
    <<DamageOf(e[1], emax, eta, m, N), DamageOf(e[2], emax, eta, m, N)>>

\* damage(self, Mx, My, xu, yu, xl, yl, emax, eta, m, N) for one station:
\* <<damageU, damageL>>
Damage(f, Mx, My, xu, yu, xl, yl, emax, eta, m, N) ==
    \* Mx, My = My, Mx;  Fz = 0.0;  xu, yu = yu, xu;  xl, yl = yl, xl
    DamagePair(PrincipalStrain(f, My, Mx, Zero,
                               ProfilePoints(xu, yu, xl, yl).xu,
                               ProfilePoints(xu, yu, xl, yl).yu,
                               ProfilePoints(xu, yu, xl, yl).xl,
                               ProfilePoints(xu, yu, xl, yl).yl),
               emax, eta, m, N)

\* what compute leaves for station i once principalCS has set the fields f
\* and N_damage is known
StationResults(f, i, N_damage) ==
    [f |-> f,
     e_spar |-> Strain(f, shearAndBending[i], xu_strain_spar[i],
                       yu_strain_spar[i], xl_strain_spar[i], yl_strain_spar[i]),
     e_te |-> Strain(f, shearAndBending[i], xu_strain_te[i],
                     yu_strain_te[i], xl_strain_te[i], yl_strain_te[i]),
     d_spar |-> Damage(f, Mx_damage[i], My_damage[i], xu_strain_spar[i],
                       yu_strain_spar[i], xl_strain_spar[i], yl_strain_spar[i],
                       strain_ult_spar, gamma_fatigue, m_damage, N_damage),
     d_te |-> Damage(f, Mx_damage[i], My_damage[i], xu_strain_te[i],
                     yu_strain_te[i], xl_strain_te[i], yl_strain_te[i],
                     strain_ult_te, gamma_fatigue, m_damage, N_damage)]

\* the instance fields and the outputs take the results out of every station
StrucAssign(out) ==
    /\ EA' = [i \in Stations |-> out[i].f.EA]
    /\ EI11' = [i \in Stations |-> out[i].f.EI11]
    /\ EI22' = [i \in Stations |-> out[i].f.EI22]
    /\ ca' = [i \in Stations |-> out[i].f.ca]
    /\ sa' = [i \in Stations |-> out[i].f.sa]
    /\ strainU_spar' = [i \in Stations |-> out[i].e_spar[1]]
    /\ strainL_spar' = [i \in Stations |-> out[i].e_spar[2]]
    /\ strainU_te' = [i \in Stations |-> out[i].e_te[1]]
    /\ strainL_te' = [i \in Stations |-> out[i].e_te[2]]
    /\ damageU_spar' = [i \in Stations |-> out[i].d_spar[1]]
    /\ damageL_spar' = [i \in Stations |-> out[i].d_spar[2]]
    /\ damageU_te' = [i \in Stations |-> out[i].d_te[1]]
    /\ damageL_te' = [i \in Stations |-> out[i].d_te[2]]

\* a query of a _pBEAM.Beam built with the given loads
Query(method, p_loads) == [query |-> method, loads |-> p_loads]

\* the queries compute makes, in its order: displacement() of the Beam with
\* the deflection loads; displacement(), mass(), outOfPlaneMomentOfInertia()
\* and naturalFrequencies() of the Beam with the power-curve deflection
\* loads; shearAndBending(), once in each call of strain, of the Beam with
\* the strain loads
BeamQueries(defl, pc_defl, strain) ==
    <<Query("displacement", defl),
      Query("displacement", pc_defl),
      Query("mass", pc_defl),
      Query("outOfPlaneMomentOfInertia", pc_defl),
      Query("naturalFrequencies", pc_defl),
      Query("shearAndBending", strain),
      Query("shearAndBending", strain)>>

\* the instance fields as one value
Fields(p_EI11, p_EI22, p_EA, p_ca, p_sa) ==
    [EI11 |-> p_EI11, EI22 |-> p_EI22, EA |-> p_EA, ca |-> p_ca, sa |-> p_sa]

\* the fields principalCS assigns, out of the results of every station
AssignedFields(out) ==
    Fields([i \in Stations |-> out[i].f.EI11], [i \in Stations |-> out[i].f.EI22],
           [i \in Stations |-> out[i].f.EA], [i \in Stations |-> out[i].f.ca],
           [i \in Stations |-> out[i].f.sa])

\* the calls with principalCS after the first call of strain
ComputeCalls_late == <<"strain", "principalCS", "strain", "damage", "damage">>

\* the calls of compute that touch the instance fields, in the order of its
\* statements: principalCS, strain for the spar cap and for the trailing
\* edge, damage for the spar cap and for the trailing edge
ComputeCalls == <<"principalCS", "strain", "strain", "damage", "damage">>

\* the accesses the first k calls make: principalCS assigns the new fields,
\* strain and damage read the fields as they are at their call, which are
\* the new ones after principalCS and the ones compute started with before
RECURSIVE FieldTrace(_, _, _, _)
FieldTrace(calls, k, before, new) ==
    IF k = 0 THEN <<>>
    ELSE Append(FieldTrace(calls, k - 1, before, new),
                IF calls[k] = "principalCS"
                THEN [call |-> calls[k], access |-> "assign", fields |-> new]
                ELSE [call |-> calls[k], access |-> "read",
                      fields |-> IF \E j \in 1..(k - 1) : calls[j] = "principalCS"
                                 THEN new ELSE before])

\* RotorWithpBEAM.compute; of the solver's answers the model holds the
\* resultants of the strain load case only
StrucCompute ==
    /\ beam_queries' = BeamQueries(P_defl, P_pc_defl, P_strain)
    /\ \E out \in {[i \in Stations |->
          StationResults(PrincipalCS(beam_EIyy[i], beam_EIxx[i], beam_y_ec[i],
                                     beam_x_ec[i], beam_EA[i], beam_EIxy[i]),
                         i, RMul(R(365 * 24 * 3600), lifetime))]} :
          /\ StrucAssign(out)
          /\ field_trace' = FieldTrace(ComputeCalls, Len(ComputeCalls),
                                       Fields(EI11, EI22, EA, ca, sa),
                                       AssignedFields(out))
    /\ UNCHANGED <<resizeVars, strucInputs, paInputs, otherVars>>

\* sections without axial stiffness (EA = 0) and without bending stiffness
\* about the first principal axis (EI11 = 2 - 2 tan(45 deg) = 0, EI22 = 4)
SingularSections ==
    { [EA |-> R(0), EIxx |-> R(4), EIyy |-> R(6), EIxy |-> R(0),
       x_ec |-> R(0), y_ec |-> R(0)],
      [EA |-> R(1), EIxx |-> R(4), EIyy |-> R(2), EIxy |-> R(2),
       x_ec |-> R(0), y_ec |-> R(0)] }

\* per-station inputs of RotorWithpBEAM
BeamSections ==
    { [EA |-> R(1), EIxx |-> R(a), EIyy |-> R(6), EIxy |-> R(b),
       x_ec |-> R(x), y_ec |-> R(y)] :
        a \in {4}, b \in {0, 2}, x \in {0, 1}, y \in {0, 1} }
    \cup SingularSections

Resultants ==
    { [Fz |-> R(0), Mx |-> R(0), My |-> R(0)],
      [Fz |-> R(1), Mx |-> R(0), My |-> R(0)],
      [Fz |-> R(0), Mx |-> R(1), My |-> R(0)],
      [Fz |-> R(0), Mx |-> R(2), My |-> R(3)] }

\* distributed loads with Px uniform over the stations
LoadCase(px) ==
    [Px |-> [i \in Stations |-> R(px)], Py |-> [i \in Stations |-> Zero],
     Pz |-> [i \in Stations |-> Zero]]

ZeroLoads == LoadCase(0)

DamageMoments == { [Mx |-> R(0), My |-> R(0)], [Mx |-> R(1), My |-> R(2)] }

StrainPoints ==
    { [xu_spar |-> R(1), yu_spar |-> R(2), xl_spar |-> R(1), yl_spar |-> R(-2),
       xu_te |-> R(3), yu_te |-> R(1), xl_te |-> R(4), yl_te |-> R(-1)] }

InitBeam ==
    /\ \E sec \in [Stations -> BeamSections] :
          /\ beam_EA = [i \in Stations |-> sec[i].EA]
          /\ beam_EIxx = [i \in Stations |-> sec[i].EIxx]
          /\ beam_EIyy = [i \in Stations |-> sec[i].EIyy]
          /\ beam_EIxy = [i \in Stations |-> sec[i].EIxy]
          /\ beam_x_ec = [i \in Stations |-> sec[i].x_ec]
          /\ beam_y_ec = [i \in Stations |-> sec[i].y_ec]
    /\ \E pts \in [Stations -> StrainPoints] :
          /\ xu_strain_spar = [i \in Stations |-> pts[i].xu_spar]
          /\ yu_strain_spar = [i \in Stations |-> pts[i].yu_spar]
          /\ xl_strain_spar = [i \in Stations |-> pts[i].xl_spar]
          /\ yl_strain_spar = [i \in Stations |-> pts[i].yl_spar]
          /\ xu_strain_te = [i \in Stations |-> pts[i].xu_te]
          /\ yu_strain_te = [i \in Stations |-> pts[i].yu_te]
          /\ xl_strain_te = [i \in Stations |-> pts[i].xl_te]
          /\ yl_strain_te = [i \in Stations |-> pts[i].yl_te]
    /\ \E dm \in [Stations -> DamageMoments] :
          /\ Mx_damage = [i \in Stations |-> dm[i].Mx]
          /\ My_damage = [i \in Stations |-> dm[i].My]
    /\ shearAndBending \in [Stations -> Resultants]
    /\ P_defl = LoadCase(2)
    /\ P_pc_defl \in {ZeroLoads, LoadCase(1)}
    /\ P_strain = LoadCase(3)
    /\ beam_queries = <<>> /\ field_trace = <<>>
    /\ strain_ult_spar = Q(1, 2)
    /\ strain_ult_te = Q(1, 4)
    /\ gamma_fatigue = R(2)
    /\ m_damage = 1
    /\ lifetime = R(1)
    /\ FieldsNone
    \* add_output(..., val=np.zeros(NPTS))
    /\ strainU_spar = [i \in Stations |-> Zero]
    /\ strainL_spar = [i \in Stations |-> Zero]
    /\ strainU_te = [i \in Stations |-> Zero]
    /\ strainL_te = [i \in Stations |-> Zero]
    /\ damageU_spar = [i \in Stations |-> Zero]
    /\ damageL_spar = [i \in Stations |-> Zero]
    /\ damageU_te = [i \in Stations |-> Zero]
    /\ damageL_te = [i \in Stations |-> Zero]
    /\ ResizeIdle /\ PaIdle /\ OtherIdle

NextBeam == StrucCompute

SpecBeam == InitBeam /\ [][NextBeam]_vars


StrucComputed == EI11 # None /\ EA # None

\* d is the logarithm of a: ln 1 is the value 0, ln 0 the value -inf
IsLnOf(d, a) == d = [ln |-> a]

\* C4 (as stated): with zero damage-equivalent moments at every station,
\* non-zero EA, EI11 and EI22 and positive emax, eta, m and lifetime, the four
\* damage outputs are 0 at every station. The outputs are logarithms, so 0 is
\* the logarithm of 1.
C4_ZeroMomentsZeroDamage ==
    (/\ StrucComputed
     /\ \A i \in Stations :
          /\ Mx_damage[i] = Zero /\ My_damage[i] = Zero
          /\ NonZero(EA[i]) /\ NonZero(EI11[i]) /\ NonZero(EI22[i])
     /\ RLt(Zero, strain_ult_spar) /\ RLt(Zero, strain_ult_te)
     /\ RLt(Zero, gamma_fatigue) /\ m_damage > 0 /\ RLt(Zero, lifetime))
    => \A i \in Stations :
          /\ IsLnOf(damageU_spar[i], One) /\ IsLnOf(damageL_spar[i], One)
          /\ IsLnOf(damageU_te[i], One) /\ IsLnOf(damageL_te[i], One)

ZeroResultants(i) ==
    /\ shearAndBending[i].Fz = Zero
    /\ shearAndBending[i].Mx = Zero
    /\ shearAndBending[i].My = Zero

\* C5: where the beam solver returns Mx = My = Fz = 0 and EA, EI11 and EI22
\* are non-zero, the strain is 0 at the four recovery points of the station,
\* whatever the recovery-point coordinates and the principal-axis angle.
C5_ZeroResultantsZeroStrain ==
    StrucComputed =>
        \A i \in Stations :
            (/\ ZeroResultants(i)
             /\ NonZero(EA[i]) /\ NonZero(EI11[i]) /\ NonZero(EI22[i]))
            => /\ strainU_spar[i] = Zero /\ strainL_spar[i] = Zero
               /\ strainU_te[i] = Zero /\ strainL_te[i] = Zero

\* C5 happens: compute has run, every station has zero resultants and
\* non-zero stiffnesses, one station has rotated principal axes and recovery
\* points off the origin, and the strains are 0
C5_Witness ==
    /\ StrucComputed
    /\ \A i \in Stations :
          /\ ZeroResultants(i)
          /\ NonZero(EA[i]) /\ NonZero(EI11[i]) /\ NonZero(EI22[i])
          /\ strainU_spar[i] = Zero /\ strainL_spar[i] = Zero
          /\ strainU_te[i] = Zero /\ strainL_te[i] = Zero
    /\ \E i \in Stations :
          /\ sa[i] # Zero
          /\ xu_strain_spar[i] # Zero /\ yl_strain_te[i] # Zero

\* ------------------------------------------------------------------------
\* The principal-axis formulas of principalCS on their own
\* ------------------------------------------------------------------------

\* lines "get rotation angle" to the end of principalCS, applied at every
\* station to stiffnesses that are already about the elastic center
PrincipalAxesAssign(pa) ==
    /\ EI11' = [i \in Stations |-> pa[i].EI11]
    /\ EI22' = [i \in Stations |-> pa[i].EI22]
    /\ ca' = [i \in Stations |-> pa[i].ca]
    /\ sa' = [i \in Stations |-> pa[i].sa]

PrincipalAxesCompute ==
    /\ \E pa \in {[i \in Stations |->
          PrincipalAxes(pa_EIxx[i], pa_EIyy[i], pa_EIxy[i])]} :
          PrincipalAxesAssign(pa)
    /\ UNCHANGED <<EA, resizeVars, strucInputs, strucOutputs, paInputs,
                   otherVars>>

\* (EIyy - EIxx, 2 EIxy) along directions whose half angle has a rational
\* cosine and sine, so that the arithmetic of the model is exact
HalfAngleDirections ==
    { <<7, 24>>, <<-7, 24>>, <<7, -24>>, <<-7, -24>>,
      <<119, 120>>, <<-119, 120>>, <<119, -120>>, <<-119, -120>>,
      <<161, 240>>, <<-161, 240>>, <<161, -240>>, <<-161, -240>> }

PaSections ==
    { [EIxx |-> R(a), EIyy |-> R(a + k * d[1]), EIxy |-> R(k * (d[2] \div 2))] :
        a \in {400, 500, 700}, k \in {1, 2}, d \in HalfAngleDirections }

InitPrincipal ==
    /\ \E sec \in [Stations -> PaSections] :
          /\ pa_EIxx = [i \in Stations |-> sec[i].EIxx]
          /\ pa_EIyy = [i \in Stations |-> sec[i].EIyy]
          /\ pa_EIxy = [i \in Stations |-> sec[i].EIxy]
    /\ FieldsNone
    /\ ResizeIdle /\ StrucIdle /\ OtherIdle

NextPrincipal == PrincipalAxesCompute

SpecPrincipal == InitPrincipal /\ [][NextPrincipal]_vars

\* EIxy recomputed in the frame rotated by the angle with cosine c and sine s
RotatedEIxy(EIxx, EIyy, EIxy, c, s) ==
    RSub(RMul(EIxy, RSub(RMul(c, c), RMul(s, s))),
         RMul(RSub(EIyy, EIxx), RMul(s, c)))

\* EIxx and EIyy recomputed in that frame
RotatedEIxx(EIxx, EIyy, EIxy, c, s) ==
    RSub(RAdd(RMul(EIxx, RMul(c, c)), RMul(EIyy, RMul(s, s))),
         RMul(R(2), RMul(EIxy, RMul(s, c))))

RotatedEIyy(EIxx, EIyy, EIxy, c, s) ==
    RAdd(RAdd(RMul(EIxx, RMul(s, s)), RMul(EIyy, RMul(c, c))),
         RMul(R(2), RMul(EIxy, RMul(s, c))))

Sq(a) == RMul(a, a)

\* the path length returned by _bem.definecurvature_dv2: 0 at the first
\* station, then the lengths of the chords between consecutive stations
RECURSIVE definecurvature_s(_, _, _, _)
definecurvature_s(r, precurve, presweep, i) ==
    IF i = 1 THEN Zero
    ELSE RAdd(definecurvature_s(r, precurve, presweep, i - 1),
              RSqrt(RAdd(RAdd(Sq(RSub(precurve[i], precurve[i - 1])),
                              Sq(RSub(presweep[i], presweep[i - 1]))),
                         Sq(RSub(r[i], r[i - 1])))))

\* mutant of PathLength: the path length as the integrator returns it
PathLength_from0(r, s_bem) ==
    [i \in DOMAIN s_bem |-> s_bem[i]]

\* self.s = self.r[0] + s
PathLength(r, s_bem) ==
    [i \in DOMAIN s_bem |-> RAdd(r[1], s_bem[i])]

\* BladeCurvature.compute, the output s
BladeCurvatureCompute ==
    LET s_bem == [i \in DOMAIN curv_r |->
                    definecurvature_s(curv_r, curv_precurve, curv_presweep, i)]
    IN  /\ curv_s' = PathLength(curv_r, s_bem)
        /\ computed' = computed \cup {"curvature"}
        /\ UNCHANGED <<curv_r, curv_precurve, curv_presweep>>
        /\ UNCHANGED <<resizeVars, strucInputs, strucFields, strucOutputs,
                       paInputs, rootVars, cfemVars, freq_curvefem,
                       consInputs, consOutputs, precompVars, tipVars, extremeVars, outsVars>>

\* steps (dr, dprecurve, dpresweep) between consecutive stations whose
\* length is rational
CurvSteps == { <<1, 0, 0>>, <<2, 0, 0>>, <<3, 4, 0>>, <<4, 0, 3>>, <<1, 2, 2>> }

RootRadii == {0, 1, 2}

RECURSIVE Cumulative(_, _, _, _)
Cumulative(first, steps, k, i) ==
    IF i = 1 THEN first ELSE Cumulative(first, steps, k, i - 1) + steps[i - 1][k]

InitCurvature ==
    /\ \E r0 \in RootRadii, steps \in [1..(CurvPts - 1) -> CurvSteps] :
          /\ curv_r = [i \in 1..CurvPts |-> R(Cumulative(r0, steps, 1, i))]
          /\ curv_precurve = [i \in 1..CurvPts |-> R(Cumulative(0, steps, 2, i))]
          /\ curv_presweep = [i \in 1..CurvPts |-> R(Cumulative(0, steps, 3, i))]
    \* add_output('s', val=np.zeros(NPTS))
    /\ curv_s = [i \in 1..CurvPts |-> Zero]
    /\ computed = {}
    /\ ResizeIdle /\ StrucIdle /\ FieldsNone /\ PaIdle
    /\ RootIdle /\ CfemIdle /\ freq_curvefem = <<>> /\ ConsIdle /\ PrecompIdle /\ TipIdle /\ ExtremeIdle /\ OutsIdle

NextCurvature == BladeCurvatureCompute

SpecCurvature == InitCurvature /\ [][NextCurvature]_vars

StraightBlade ==
    /\ \A i \in DOMAIN curv_r :
          curv_precurve[i] = Zero /\ curv_presweep[i] = Zero
    /\ \A i \in DOMAIN curv_r : i > 1 => RLt(curv_r[i - 1], curv_r[i])

\* C6 (as stated): with precurve = presweep = 0 at every station and
\* strictly increasing r, s[i] = r[i] - r[0] at every station, so s[0] = 0,
\* also when r[0] is not 0.
C6_ArcLengthFromZero ==
    ("curvature" \in computed /\ StraightBlade) =>
        \A i \in DOMAIN curv_s : curv_s[i] = RSub(curv_r[i], curv_r[1])

\* C6 (amended): with precurve = presweep = 0 at every station and strictly
\* increasing r, s[i] = r[0] + (r[i] - r[0]) = r[i] at every station, so
\* s[0] = r[0]; s[i] = r[i] - r[0] only when r[0] = 0.
C6_ArcLengthFromRoot ==
    ("curvature" \in computed /\ StraightBlade) =>
        /\ \A i \in DOMAIN curv_s : curv_s[i] = curv_r[i]
        /\ curv_s[1] = curv_r[1]
        /\ (\A i \in DOMAIN curv_s : curv_s[i] = RSub(curv_r[i], curv_r[1]))
               <=> curv_r[1] = Zero

\* C6 happens: compute has run on a straight blade whose first station is
\* not at 0 and whose stations are unevenly spaced, and s equals r
C6_Witness ==
    /\ "curvature" \in computed /\ StraightBlade
    /\ curv_r[1] # Zero
    /\ Len(curv_r) >= 3
    /\ RSub(curv_r[2], curv_r[1]) # RSub(curv_r[3], curv_r[2])
    /\ \A i \in DOMAIN curv_s : curv_s[i] = curv_r[i]


\* ------------------------------------------------------------------------
\* RootMoment and its connections in RotorStructure
\* ------------------------------------------------------------------------

\* interp_with_deriv(x, xp, yp), the interpolated values: linear on the
\* segment of (xp, yp) that holds x, and on the first or the last segment
\* continued for an x outside the range of xp; it has no range check
RECURSIVE InterpAt(_, _, _, _)
InterpAt(x, xp, yp, j) ==
    IF j < Len(xp) - 1 /\ ~RLt(x, xp[j + 1])
    THEN InterpAt(x, xp, yp, j + 1)
    ELSE RAdd(yp[j], RMul(RSub(yp[j + 1], yp[j]),
                          RDiv(RSub(x, xp[j]), RSub(xp[j + 1], xp[j]))))

Interp(x, xp, yp) == [i \in DOMAIN x |-> InterpAt(x[i], xp, yp, 1)]

\* np.trapz(y, x)
RECURSIVE TrapzTo(_, _, _)
TrapzTo(y, x, i) ==
    IF i <= 1 THEN Zero
    ELSE RAdd(TrapzTo(y, x, i - 1),
              RMul(RSub(x[i], x[i - 1]), RDiv(RAdd(y[i], y[i - 1]), R(2))))

Trapz(y, x) == TrapzTo(y, x, Len(x))

\* DirectionVector(x, y, z).bladeToAzimuth(cone) at one station, the cone
\* angle given by its cosine and sine
BladeToAzimuth(v, cone) ==
    [x |-> RAdd(RMul(v.x, cone.c), RMul(v.z, cone.s)),
     y |-> v.y,
     z |-> RSub(RMul(v.z, cone.c), RMul(v.x, cone.s))]

\* DirectionVector.cross at one station
Cross(a, b) ==
    [x |-> RSub(RMul(a.y, b.z), RMul(a.z, b.y)),
     y |-> RSub(RMul(a.z, b.x), RMul(a.x, b.z)),
     z |-> RSub(RMul(a.x, b.y), RMul(a.y, b.x))]

\* the integrals of RootMoment.compute: Fxyz of the interpolated loads and
\* Mxyz of the distributed bending load Mp, over s
RootIntegrals(Px, Py, Pz, Mp, g) ==
    [Fxyz |-> <<Trapz(Px, g.s), Trapz(Py, g.s), Trapz(Pz, g.s)>>,
     Mxyz |-> <<Trapz([i \in DOMAIN Mp |-> Mp[i].x], g.s),
                Trapz([i \in DOMAIN Mp |-> Mp[i].y], g.s),
                Trapz([i \in DOMAIN Mp |-> Mp[i].z], g.s)>>]

\* the loads are rotated to the azimuthal c.s. and crossed with the station
\* positions (distributed bending load in azimuth coordinate system)
RootBending(Px, Py, Pz, g) ==
    RootIntegrals(Px, Py, Pz,
        [i \in DOMAIN Px |->
            Cross([x |-> g.x_az[i], y |-> g.y_az[i], z |-> g.z_az[i]],
                  BladeToAzimuth([x |-> Px[i], y |-> Py[i], z |-> Pz[i]],
                                 g.totalCone[i]))],
        g)

\* RootMoment.compute: the outputs Mxyz and Fxyz for the inputs al
\* (aeroloads_r, aeroloads_Px, aeroloads_Py, aeroloads_Pz) and g (r_pts,
\* totalCone, x_az, y_az, z_az, s)
RootMomentOutputs(al, g) ==
    RootBending(Interp(g.r_pts, al.r, al.Px), Interp(g.r_pts, al.r, al.Py),
                Interp(g.r_pts, al.r, al.Pz), g)

RootMoments == {"root_moment_0", "root_moment_120", "root_moment_240"}

AeroCases == {"aero_0", "aero_120", "aero_240", "aero_rated"}

\* self.connect('aero_rated.loads_Px', ['root_moment_0.aeroloads_Px',
\* 'root_moment_120.aeroloads_Px', 'root_moment_240.aeroloads_Px']) and the
\* same for loads_Py, loads_Pz and loads_r: the component whose loads feed
\* each RootMoment
AeroloadsSource ==
    [k \in RootMoments |-> "aero_rated"]

\* one RootMoment component runs: its connected inputs are transferred and
\* its compute writes Mxyz and Fxyz
RootMomentRun(k) ==
    /\ aeroloads' = [aeroloads EXCEPT ![k] = loads[AeroloadsSource[k]]]
    /\ \E out \in {RootMomentOutputs(loads[AeroloadsSource[k]], root_geom)} :
          /\ Mxyz' = [Mxyz EXCEPT ![k] = out.Mxyz]
          /\ Fxyz' = [Fxyz EXCEPT ![k] = out.Fxyz]
    /\ computed' = computed \cup {k}
    /\ UNCHANGED <<loads, root_geom>>
    /\ UNCHANGED <<resizeVars, strucInputs, strucFields, strucOutputs,
                   paInputs, curvVars, cfemVars, freq_curvefem,
                   consInputs, consOutputs, precompVars, tipVars, extremeVars, outsVars>>

\* distributed loads on the grid r = (0, 2, 4), as CCBladeLoads outputs them
LoadSets ==
    { [r |-> <<R(0), R(2), R(4)>>, Px |-> <<R(a), R(a + b), R(a)>>,
       Py |-> <<R(b), R(0), R(1)>>, Pz |-> <<R(0), R(b), R(b)>>] :
        a \in {0, 1}, b \in {0, 2} }

\* a straight blade without cone, stations at r_pts = (0, 1, 4)
StraightGeometry ==
    [r_pts |-> <<R(0), R(1), R(4)>>,
     totalCone |-> <<[c |-> One, s |-> Zero], [c |-> One, s |-> Zero],
                     [c |-> One, s |-> Zero]>>,
     x_az |-> <<R(0), R(0), R(0)>>,
     y_az |-> <<R(0), R(0), R(0)>>,
     z_az |-> <<R(0), R(1), R(4)>>,
     s |-> <<R(0), R(1), R(4)>>]

\* the same blade with its tip station at r_pts = 5, beyond the last
\* point of the grid of the loads
OverhangGeometry ==
    [StraightGeometry EXCEPT !.r_pts = <<R(0), R(1), R(5)>>,
                             !.z_az = <<R(0), R(1), R(5)>>,
                             !.s = <<R(0), R(1), R(5)>>]

InitRoot ==
    /\ loads \in [AeroCases -> LoadSets]
    /\ root_geom \in {StraightGeometry, OverhangGeometry}
    \* add_input(..., val=np.zeros(NPTS)), add_output(..., val=[0, 0, 0])
    /\ aeroloads = [k \in RootMoments |->
                      [r |-> <<Zero, Zero, Zero>>, Px |-> <<Zero, Zero, Zero>>,
                       Py |-> <<Zero, Zero, Zero>>, Pz |-> <<Zero, Zero, Zero>>]]
    /\ Mxyz = [k \in RootMoments |-> <<Zero, Zero, Zero>>]
    /\ Fxyz = [k \in RootMoments |-> <<Zero, Zero, Zero>>]
    /\ computed = {}
    /\ ResizeIdle /\ StrucIdle /\ FieldsNone /\ PaIdle
    /\ CurvIdle /\ CfemIdle /\ freq_curvefem = <<>> /\ ConsIdle /\ PrecompIdle /\ TipIdle /\ ExtremeIdle /\ OutsIdle

NextRoot == \E k \in RootMoments : RootMomentRun(k)

SpecRoot == InitRoot /\ [][NextRoot]_vars

\* the azimuth load case a RootMoment component is named after
OwnAzimuthCase ==
    [k \in RootMoments |->
        CASE k = "root_moment_0" -> "aero_0"
          [] k = "root_moment_120" -> "aero_120"
          [] k = "root_moment_240" -> "aero_240"]

\* C7 (as stated): root_moment_0, root_moment_120 and root_moment_240 each
\* compute their root force and moment vectors from the loads of their own
\* azimuth load case aero_0, aero_120, aero_240.
C7_OwnAzimuthLoads ==
    \A k \in RootMoments :
        k \in computed =>
            /\ aeroloads[k] = loads[OwnAzimuthCase[k]]
            /\ Fxyz[k] = RootMomentOutputs(loads[OwnAzimuthCase[k]], root_geom).Fxyz
            /\ Mxyz[k] = RootMomentOutputs(loads[OwnAzimuthCase[k]], root_geom).Mxyz


\* ------------------------------------------------------------------------
\* CurveFEM
\* ------------------------------------------------------------------------

NFREQ == 5

\* [c/sum(coef) for c in coef]
CoefNorm(coef) ==
    [j \in DOMAIN coef |-> RDiv(coef[j], RSum(coef))]

\* what stands for a call of curve_fit that raises (scipy raises
\* RuntimeError when the least-squares minimisation fails)
FitFailure == <<>>

\* the first of the three fits that raises, 0 if none does
FirstFailure(fits) ==
    IF fits[1] = FitFailure THEN 1
    ELSE IF fits[2] = FitFailure THEN 2
    ELSE IF fits[3] = FitFailure THEN 3 ELSE 0

\* CurveFEM.compute: the frequencies of the eigen solver are cut to NFREQ
\* and written to the output, then the three fits (first flapwise, second
\* flapwise, first edgewise) are made one after the other and each one is
\* normalised into its row of modes_coef; an exception of curve_fit is not
\* caught, it ends compute at the fit that raised
CurveFEMRun(failed) ==
    /\ freq_curvefem' = SubSeq(eig_freq, 1, NFREQ)
    /\ modes_coef' = [row \in 1..3 |->
                        IF failed = 0 \/ row < failed
                        THEN CoefNorm(fit_coef[row]) ELSE modes_coef[row]]
    /\ cfem_raised' = IF failed = 0 THEN {} ELSE {"RuntimeError"}
    /\ computed' = IF failed = 0 THEN computed \cup {"curvefem"}
                   ELSE computed \ {"curvefem"}
    /\ UNCHANGED <<eig_freq, fit_coef>>
    /\ UNCHANGED <<resizeVars, strucInputs, strucFields, strucOutputs,
                   paInputs, curvVars, rootVars, consInputs, consOutputs,
                   precompVars, tipVars, extremeVars, outsVars>>

\* coefficients (a, b, c, d, e) of a x^2 + b x^3 + c x^4 + d x^5 + e x^6 that
\* curve_fit can return; the third is a shape that vanishes at the tip
FitResults ==
    { <<R(1), R(0), R(0), R(0), R(0)>>,
      <<R(3), R(-2), R(1), R(0), R(2)>>,
      <<R(1), R(-1), R(0), R(0), R(0)>>,
      <<Q(1, 2), Q(1, 4), R(0), R(-1), Q(-3, 4)>>,
      <<R(0), R(0), R(0), R(0), R(0)>> }

InitCurveFEM ==
    /\ eig_freq = [k \in 1..(NFREQ + 1) |-> R(k)]
    /\ fit_coef \in [1..3 -> FitResults \cup {FitFailure}]
    /\ cfem_raised = {}
    \* add_output('freq', val=np.zeros(NFREQ)), ('modes_coef', np.zeros((3, 5)))
    /\ freq_curvefem = [k \in 1..NFREQ |-> Zero]
    /\ modes_coef = [row \in 1..3 |-> [j \in 1..5 |-> Zero]]
    /\ computed = {}
    /\ ResizeIdle /\ StrucIdle /\ FieldsNone /\ PaIdle
    /\ CurvIdle /\ RootIdle /\ ConsIdle /\ PrecompIdle /\ TipIdle /\ ExtremeIdle /\ OutsIdle

CurveFEMCompute == CurveFEMRun(FirstFailure(fit_coef))

NextCurveFEM == CurveFEMCompute

SpecCurveFEM == InitCurveFEM /\ [][NextCurveFEM]_vars

\* C8 (as stated): for each of the three fitted mode shapes, the five
\* coefficients written to its row of modes_coef sum to 1, for every fit
\* result returned by the least-squares fit.
C8_RowsSumToOne ==
    "curvefem" \in computed =>
        \A row \in 1..3 : RSum(modes_coef[row]) = One

\* ------------------------------------------------------------------------
\* ConstraintsStructures
\* ------------------------------------------------------------------------

\* mutant of StrainMargin: the ultimate strain multiplies
StrainMargin_times(strain, gamma_strain, strain_ult) ==
    RMul(RMul(strain, gamma_strain), strain_ult)

\* inputs['strain...'] * gamma_strain / strain_ult, at one station
StrainMargin(strain, gamma_strain, strain_ult) ==
    RDiv(RMul(strain, gamma_strain), strain_ult)

\* inputs['strain...'] * gamma_f / eps_crit, at one station
BucklingMargin(strain, gamma_load, eps_crit) ==
    RDiv(RMul(strain, gamma_load), eps_crit)

\* mutant of FreqMargin: the rotation speed is taken in rpm, not in Hz
FreqMargin_rpm(n, omega, gamma, f) ==
    [k \in DOMAIN f |-> RDiv(RMul(RMul(n, RMul(omega, R(60))), gamma), f[k])]

\* (n*omega*gamma_freq) / inputs['freq...'], per frequency
FreqMargin(n, omega, gamma, f) ==
    [k \in DOMAIN f |-> RDiv(RMul(RMul(n, omega), gamma), f[k])]

\* J[margin, 'Omega'] = (n*gamma_freq) / inputs['freq...'], per frequency
OmegaPartial(n, gamma, f) == [k \in DOMAIN f |-> RDiv(RMul(n, gamma), f[k])]

\* ConstraintsStructures.compute, which ends with self.J = J
ConstraintsCompute ==
    LET omega == RDiv(Omega, R(60))
        gamma_strain == RMul(gamma_f, gamma_m)
    IN  /\ Pn_margin' = FreqMargin(R(nBlades), omega, gamma_freq, freq)
        /\ P1_margin' = FreqMargin(One, omega, gamma_freq, freq)
        /\ Pn_margin_cfem' = FreqMargin(R(nBlades), omega, gamma_freq, freq_curvefem)
        /\ P1_margin_cfem' = FreqMargin(One, omega, gamma_freq, freq_curvefem)
        /\ J_Omega' =
              [Pn_margin |-> OmegaPartial(R(nBlades), gamma_freq, freq),
               P1_margin |-> OmegaPartial(One, gamma_freq, freq),
               Pn_margin_cfem |-> OmegaPartial(R(nBlades), gamma_freq, freq_curvefem),
               P1_margin_cfem |-> OmegaPartial(One, gamma_freq, freq_curvefem)]
        /\ rotor_strain_sparU' = [i \in Stations |->
              StrainMargin(strainU_spar[i], gamma_strain, strain_ult_spar)]
        /\ rotor_strain_sparL' = [i \in Stations |->
              StrainMargin(strainL_spar[i], gamma_strain, strain_ult_spar)]
        /\ rotor_strain_teU' = [i \in Stations |->
              StrainMargin(strainU_te[i], gamma_strain, strain_ult_te)]
        /\ rotor_strain_teL' = [i \in Stations |->
              StrainMargin(strainL_te[i], gamma_strain, strain_ult_te)]
        /\ rotor_buckling_sparU' = [i \in Stations |->
              BucklingMargin(strainU_spar[i], gamma_f, eps_crit_spar[i])]
        /\ rotor_buckling_sparL' = [i \in Stations |->
              BucklingMargin(strainL_spar[i], gamma_f, eps_crit_spar[i])]
        /\ rotor_buckling_teU' = [i \in Stations |->
              BucklingMargin(strainU_te[i], gamma_f, eps_crit_te[i])]
        /\ rotor_buckling_teL' = [i \in Stations |->
              BucklingMargin(strainL_te[i], gamma_f, eps_crit_te[i])]
        /\ rotor_damage_sparU' = damageU_spar
        /\ rotor_damage_sparL' = damageL_spar
        /\ rotor_damage_teU' = damageU_te
        /\ rotor_damage_teL' = damageL_te
        /\ computed' = computed \cup {"constraints"}
        /\ UNCHANGED <<consInputs, freq_curvefem, strucInputs, strucOutputs>>
        /\ UNCHANGED <<resizeVars, strucFields, paInputs, curvVars, rootVars,
                       cfemVars, precompVars, tipVars, extremeVars, outsVars>>

\* strains (upper spar, lower spar, upper TE, lower TE) of one station
StationStrains ==
    { [sparU |-> Q(a, 1000), sparL |-> Q(-a, 1000),
       teU |-> Q(b, 1000), teL |-> Q(1 - b, 1000)] :
        a \in {0, 5, 10}, b \in {-2, 1, 2, 5} }

\* (gamma_f, gamma_m, strain_ult_spar, strain_ult_te)
SafetyFactors ==
    { [gamma_f |-> Q(135, 100), gamma_m |-> Q(11, 10)],
      [gamma_f |-> R(1), gamma_m |-> R(1)],
      [gamma_f |-> R(2), gamma_m |-> Q(3, 2)] }

UltimateStrains ==
    { [spar |-> Q(1, 100), te |-> Q(25, 10000)],
      [spar |-> Q(1, 50), te |-> Q(1, 100)] }

InitConstraints ==
    /\ \E e \in [Stations -> StationStrains] :
          /\ strainU_spar = [i \in Stations |-> e[i].sparU]
          /\ strainL_spar = [i \in Stations |-> e[i].sparL]
          /\ strainU_te = [i \in Stations |-> e[i].teU]
          /\ strainL_te = [i \in Stations |-> e[i].teL]
    /\ \E g \in SafetyFactors : gamma_f = g.gamma_f /\ gamma_m = g.gamma_m
    /\ \E u \in UltimateStrains :
          strain_ult_spar = u.spar /\ strain_ult_te = u.te
    /\ gamma_freq = Q(11, 10)
    /\ nBlades = 3
    /\ Omega \in {R(12), R(30)}
    /\ freq = [k \in 1..NFREQ |-> R(k)]
    /\ freq_curvefem = [k \in 1..NFREQ |-> R(k + 1)]
    /\ eps_crit_spar = [i \in Stations |-> Q(-1, 100)]
    /\ eps_crit_te = [i \in Stations |-> Q(-1, 500)]
    /\ damageU_spar = [i \in Stations |-> Ln(Q(1, 2))]
    /\ damageL_spar = [i \in Stations |-> Ln(Q(1, 3))]
    /\ damageU_te = [i \in Stations |-> Ln(Q(1, 4))]
    /\ damageL_te = [i \in Stations |-> Ln(Q(1, 5))]
    \* add_output(..., shape=5) and add_output(..., val=np.zeros(NPTS))
    /\ Pn_margin = [k \in 1..NFREQ |-> Zero]
    /\ P1_margin = [k \in 1..NFREQ |-> Zero]
    /\ Pn_margin_cfem = [k \in 1..NFREQ |-> Zero]
    /\ P1_margin_cfem = [k \in 1..NFREQ |-> Zero]
    /\ rotor_strain_sparU = [i \in Stations |-> Zero]
    /\ rotor_strain_sparL = [i \in Stations |-> Zero]
    /\ rotor_strain_teU = [i \in Stations |-> Zero]
    /\ rotor_strain_teL = [i \in Stations |-> Zero]
    /\ rotor_buckling_sparU = [i \in Stations |-> Zero]
    /\ rotor_buckling_sparL = [i \in Stations |-> Zero]
    /\ rotor_buckling_teU = [i \in Stations |-> Zero]
    /\ rotor_buckling_teL = [i \in Stations |-> Zero]
    /\ rotor_damage_sparU = [i \in Stations |-> Zero]
    /\ rotor_damage_sparL = [i \in Stations |-> Zero]
    /\ rotor_damage_teU = [i \in Stations |-> Zero]
    /\ rotor_damage_teL = [i \in Stations |-> Zero]
    /\ J_Omega = <<>>
    /\ computed = {}
    \* the inputs of RotorWithpBEAM that ConstraintsStructures does not read
    /\ beam_EA = <<>> /\ beam_EIxx = <<>> /\ beam_EIyy = <<>> /\ beam_EIxy = <<>>
    /\ beam_x_ec = <<>> /\ beam_y_ec = <<>>
    /\ xu_strain_spar = <<>> /\ xl_strain_spar = <<>>
    /\ yu_strain_spar = <<>> /\ yl_strain_spar = <<>>
    /\ xu_strain_te = <<>> /\ xl_strain_te = <<>>
    /\ yu_strain_te = <<>> /\ yl_strain_te = <<>>
    /\ Mx_damage = <<>> /\ My_damage = <<>>
    /\ gamma_fatigue = Zero /\ m_damage = 0 /\ lifetime = Zero
    /\ shearAndBending = <<>>
    /\ P_defl = <<>> /\ P_pc_defl = <<>> /\ P_strain = <<>>
    /\ beam_queries = <<>> /\ field_trace = <<>>
    /\ ResizeIdle /\ FieldsNone /\ PaIdle /\ CurvIdle /\ RootIdle /\ CfemIdle
    /\ PrecompIdle /\ TipIdle /\ ExtremeIdle /\ OutsIdle

NextConstraints == ConstraintsCompute

SpecConstraints == InitConstraints /\ [][NextConstraints]_vars

\* C10: every strain margin is strain * gamma_f * gamma_m / ultimate strain
\* per station, with strain_ult_spar for rotor_strain_sparU/sparL and
\* strain_ult_te for rotor_strain_teU/teL; for strain 0.005, gamma_f 1.35,
\* gamma_m 1.1 and ultimate strain 0.01 the margin is 0.7425.
C10_StrainMargins ==
    "constraints" \in computed =>
        \A i \in Stations :
            /\ RMul(rotor_strain_sparU[i], strain_ult_spar)
                   = RMul(strainU_spar[i], RMul(gamma_f, gamma_m))
            /\ RMul(rotor_strain_sparL[i], strain_ult_spar)
                   = RMul(strainL_spar[i], RMul(gamma_f, gamma_m))
            /\ RMul(rotor_strain_teU[i], strain_ult_te)
                   = RMul(strainU_te[i], RMul(gamma_f, gamma_m))
            /\ RMul(rotor_strain_teL[i], strain_ult_te)
                   = RMul(strainL_te[i], RMul(gamma_f, gamma_m))
            /\ (/\ strainU_spar[i] = Q(5, 1000) /\ gamma_f = Q(135, 100)
                /\ gamma_m = Q(11, 10) /\ strain_ult_spar = Q(1, 100))
               => rotor_strain_sparU[i] = Q(7425, 10000)
            /\ (/\ strainU_te[i] = Q(5, 1000) /\ gamma_f = Q(135, 100)
                /\ gamma_m = Q(11, 10) /\ strain_ult_te = Q(1, 100))
               => rotor_strain_teU[i] = Q(7425, 10000)

\* C10 happens: compute has run on the example values, the two ultimate
\* strains differ, and the spar margin is 0.7425 while the TE margin of the
\* same station is not the value strain_ult_spar would give
C10_Witness ==
    /\ "constraints" \in computed
    /\ strain_ult_spar # strain_ult_te
    /\ gamma_f = Q(135, 100) /\ gamma_m = Q(11, 10)
    /\ strain_ult_spar = Q(1, 100)
    /\ \E i \in Stations :
          /\ strainU_spar[i] = Q(5, 1000)
          /\ rotor_strain_sparU[i] = Q(7425, 10000)
          /\ strainU_te[i] # Zero
          /\ rotor_strain_teU[i]
                 = RDiv(RMul(strainU_te[i], Q(1485, 1000)), strain_ult_te)
          /\ rotor_strain_teU[i]
                 # RDiv(RMul(strainU_te[i], Q(1485, 1000)), strain_ult_spar)


\* C11: for every retained mode k, P1_margin[k] = (Omega/60) gamma_freq / freq[k]
\* and Pn_margin[k] = nBlades (Omega/60) gamma_freq / freq[k] = nBlades
\* P1_margin[k]; the same holds for the _cfem margins with freq_curvefem, and
\* each pair of margins is a function of its own frequency input only.
C11_FrequencyMargins ==
    "constraints" \in computed =>
        /\ DOMAIN P1_margin = 1..NFREQ /\ DOMAIN Pn_margin = 1..NFREQ
        /\ DOMAIN P1_margin_cfem = 1..NFREQ /\ DOMAIN Pn_margin_cfem = 1..NFREQ
        /\ \A k \in 1..NFREQ :
              /\ RMul(RMul(P1_margin[k], freq[k]), R(60)) = RMul(Omega, gamma_freq)
              /\ Pn_margin[k] = RMul(R(nBlades), P1_margin[k])
              /\ RMul(RMul(P1_margin_cfem[k], freq_curvefem[k]), R(60))
                     = RMul(Omega, gamma_freq)
              /\ Pn_margin_cfem[k] = RMul(R(nBlades), P1_margin_cfem[k])

\* C11 happens: compute has run with frequencies of the straight and of the
\* curved beam that differ in every mode, and so do the margins
C11_Witness ==
    /\ "constraints" \in computed
    /\ Omega = R(12) /\ nBlades = 3
    /\ \A k \in 1..NFREQ :
          /\ freq[k] # freq_curvefem[k]
          /\ P1_margin[k] # P1_margin_cfem[k]
          /\ P1_margin[k] # Zero
    /\ P1_margin[1] = Q(22, 100)
    /\ Pn_margin[1] = Q(66, 100)
    /\ Pn_margin_cfem[1] = Q(33, 100)

\* ------------------------------------------------------------------------
\* PreCompSections.panelBucklingStrain
\* ------------------------------------------------------------------------

\* np.pi, held as a rational
Pi == Q(22, 7)

\* sector_length = chord[i] * (cs.loc[sector_idx+1] - cs.loc[sector_idx]),
\* sector_idx counted from 0
SectorLength(c, loc, sector_idx) ==
    RMul(c, RSub(loc[sector_idx + 2], loc[sector_idx + 1]))

\* D3 = D[0, 1] + 2*D[2, 2]
D3Of(lam) == RAdd(lam.D12, RMul(R(2), lam.D66))

\* the buckling load with pi/sector_length left unsquared
EpsCrit_unsquared(sector_length, lam) ==
    RNeg(RDiv(RDiv(RMul(RMul(R(2), RDiv(Pi, sector_length)),
                        RAdd(RSqrt(RMul(lam.D11, lam.D22)), D3Of(lam))),
                   lam.totalHeight),
              lam.E))

\* Nxx = 2 * (pi/sector_length)**2 * (sqrt(D1*D2) + D3)
\* eps_crit = - Nxx / totalHeight / E
EpsCrit(sector_length, lam) ==
    RNeg(RDiv(RDiv(RMul(RMul(R(2), Sq(RDiv(Pi, sector_length))),
                        RAdd(RSqrt(RMul(lam.D11, lam.D22)), D3Of(lam))),
                   lam.totalHeight),
              lam.E))

\* discrete_inputs['upperCS'] and discrete_inputs['lowerCS'], each stack by
\* its sector boundaries and its laminates
DiscreteInputs ==
    [upperCS |-> [loc |-> upper_loc, lam |-> upper_lam],
     lowerCS |-> [loc |-> lower_loc, lam |-> lower_lam]]

\* panelBucklingStrain with CS_list taken from the lower surface
panelBucklingStrain_lower(discrete_inputs, sector_idx_strain) ==
    [i \in Stations |->
        EpsCrit(SectorLength(chord[i], discrete_inputs.lowerCS.loc[i],
                             sector_idx_strain[i]),
                discrete_inputs.lowerCS.lam[i][sector_idx_strain[i] + 1])]

\* panelBucklingStrain(inputs, discrete_inputs, sector_idx_strain): one
\* eps_crit per station, CS_list = discrete_inputs['upperCS']
panelBucklingStrain(discrete_inputs, sector_idx_strain) ==
    [i \in Stations |->
        EpsCrit(SectorLength(chord[i], discrete_inputs.upperCS.loc[i],
                             sector_idx_strain[i]),
                discrete_inputs.upperCS.lam[i][sector_idx_strain[i] + 1])]

\* np.interp(x, xp, fp): linear between the points, the end values outside
NpInterp(x, xp, fp) ==
    IF RLt(x, xp[1]) THEN fp[1]
    ELSE IF RLt(xp[Len(xp)], x) THEN fp[Len(fp)]
    ELSE InterpAt(x, xp, fp, 1)

\* 0.5*(cs.loc[idx] + cs.loc[idx+1]), idx counted from 0
SectorMidpoint(loc, idx) == RDiv(RAdd(loc[idx + 1], loc[idx + 2]), R(2))

\* the midpoints of the sector on the upper and the lower surface of station
\* i, made dimensional and relative to the elastic centre, in the profile
\* frame: xu = xun*chord - x_ec_nose, yu = yun*chord - y_ec_nose, ...
ProfileLocations(i, idx) ==
    [xu |-> RSub(RMul(SectorMidpoint(upper_loc[i], idx), chord[i]), ec_nose[i].x),
     xl |-> RSub(RMul(SectorMidpoint(lower_loc[i], idx), chord[i]), ec_nose[i].x),
     yu |-> RSub(RMul(NpInterp(SectorMidpoint(upper_loc[i], idx),
                               profile[i].x, profile[i].yu), chord[i]),
                 ec_nose[i].y),
     yl |-> RSub(RMul(NpInterp(SectorMidpoint(lower_loc[i], idx),
                               profile[i].x, profile[i].yl), chord[i]),
                 ec_nose[i].y)]

\* criticalStrainLocations, its last statements: "switch to airfoil
\* coordinate system", xu, yu = yu, xu and xl, yl = yl, xl
StrainLocations(p) == [xu |-> p.yu, xl |-> p.yl, yu |-> p.xu, yl |-> p.xl]

\* criticalStrainLocations(inputs, discrete_inputs, sector_idx_strain,
\* x_ec_nose, y_ec_nose): per station the returned xu, xl, yu, yl
criticalStrainLocations(sector_idx_strain) ==
    [i \in Stations |->
        StrainLocations(ProfileLocations(i, sector_idx_strain[i]))]

\* PreCompSections.compute, its outputs for the strain calculation: the two
\* panel buckling strains and the strain locations of the spar cap and the
\* trailing edge, which RotorStructure connects to the inputs of the same
\* names of RotorWithpBEAM
PanelBucklingCompute ==
    /\ "precomp" \notin computed
    /\ computed' = computed \cup {"precomp"}
    /\ eps_crit_spar' = panelBucklingStrain(DiscreteInputs, sector_idx_strain_spar)
    /\ eps_crit_te' = panelBucklingStrain(DiscreteInputs, sector_idx_strain_te)
    /\ \E sp \in {criticalStrainLocations(sector_idx_strain_spar)} :
          /\ xu_strain_spar' = [i \in Stations |-> sp[i].xu]
          /\ xl_strain_spar' = [i \in Stations |-> sp[i].xl]
          /\ yu_strain_spar' = [i \in Stations |-> sp[i].yu]
          /\ yl_strain_spar' = [i \in Stations |-> sp[i].yl]
    /\ \E te \in {criticalStrainLocations(sector_idx_strain_te)} :
          /\ xu_strain_te' = [i \in Stations |-> te[i].xu]
          /\ xl_strain_te' = [i \in Stations |-> te[i].xl]
          /\ yu_strain_te' = [i \in Stations |-> te[i].yu]
          /\ yl_strain_te' = [i \in Stations |-> te[i].yl]
    /\ UNCHANGED <<beam_EA, beam_EIxx, beam_EIyy, beam_EIxy, beam_x_ec, beam_y_ec,
                   Mx_damage, My_damage, strain_ult_spar, strain_ult_te,
                   gamma_fatigue, m_damage, lifetime, shearAndBending,
                   P_defl, P_pc_defl, P_strain>>
    /\ UNCHANGED <<resizeVars, strucFields, strucOutputs, paInputs,
                   curvVars, rootVars, cfemVars, freq_curvefem, precompVars,
                   tipVars, extremeVars, outsVars,
                   nBlades, freq, Omega, gamma_f, gamma_m, gamma_freq,
                   consOutputs>>

\* chords, sector boundaries and laminates of a station
Chords == {Q(1, 2), R(1), R(2)}

SectorBounds == {<<Zero, Q(1, 4), One>>, <<Zero, Q(1, 2), One>>}

Laminate(D11, D22, D12, D66, h, E) ==
    [D11 |-> R(D11), D22 |-> R(D22), D12 |-> R(D12), D66 |-> R(D66),
     totalHeight |-> h, E |-> R(E)]

SectorLaminates ==
    {<<Laminate(1, 4, 1, 1, One, 1), Laminate(2, 8, 0, 1, Q(1, 2), 2)>>,
     <<Laminate(9, 1, 1, 0, Q(1, 2), 1), Laminate(1, 1, 2, 1, One, 2)>>,
     <<Laminate(4, 1, 0 - 5, 1, One, 1), Laminate(1, 4, 1, 1, One, 1)>>}

\* laminates of the two sectors of a lower surface stack
LowerLaminates ==
    {<<Laminate(1, 1, 1, 1, One, 1), Laminate(4, 4, 1, 0, One, 2)>>,
     <<Laminate(1, 4, 1, 1, One, 1), Laminate(2, 8, 0, 1, Q(1, 2), 2)>>}

\* a profile: pf.x, pf.yu, pf.yl
Airfoil ==
    [x |-> <<Zero, Q(1, 2), One>>, yu |-> <<Zero, Q(1, 4), Zero>>,
     yl |-> <<Zero, Q(0 - 1, 8), Zero>>]

InitBuckling ==
    /\ chord \in [Stations -> Chords]
    /\ upper_loc \in [Stations -> SectorBounds]
    /\ upper_lam \in [Stations -> SectorLaminates]
    /\ lower_loc = [i \in Stations |-> <<Zero, Q(1, 2), One>>]
    /\ lower_lam \in [Stations -> LowerLaminates]
    /\ profile = [i \in Stations |-> Airfoil]
    /\ ec_nose = [i \in Stations |-> [x |-> Q(1, 4), y |-> Q(1, 16)]]
    /\ sector_idx_strain_spar \in [Stations -> SectorIdx]
    /\ sector_idx_strain_te \in [Stations -> SectorIdx]
    /\ heap = <<>> /\ chord_ref = <<>> /\ sparT = <<>> /\ teT = <<>>
    /\ upperCS_in = <<>> /\ lowerCS_in = <<>> /\ websCS_in = <<>>
    /\ upperCS = <<>> /\ lowerCS = <<>> /\ websCS = <<>>
    /\ resize_calls = 0 /\ t_prev = <<>> /\ t_first = <<>>
    /\ StrucIdle /\ FieldsNone /\ PaIdle /\ CurvIdle /\ RootIdle /\ CfemIdle
    /\ freq_curvefem = <<>> /\ ConsIdle /\ computed = {} /\ TipIdle /\ ExtremeIdle /\ OutsIdle

NextBuckling == PanelBucklingCompute

SpecBuckling == InitBuckling /\ [][NextBuckling]_vars

\* the laminate has positive D1, D2, D3, E and total thickness
PositiveLaminate(lam) ==
    /\ RLt(Zero, lam.D11) /\ RLt(Zero, lam.D22) /\ RLt(Zero, D3Of(lam))
    /\ RLt(Zero, lam.E) /\ RLt(Zero, lam.totalHeight)

\* what C12 says of one output at one station: with the laminate held fixed,
\* eps_crit times the squared sector length is the same for the sector
\* length, its half and its double, and eps_crit is negative for a positive
\* laminate
InverseSquare(eps, i, sector_idx) ==
    \E len \in {SectorLength(chord[i], upper_loc[i], sector_idx)} :
    \E lam \in {upper_lam[i][sector_idx + 1]} :
        /\ IsFinite(eps)
        /\ EpsCrit(RDiv(len, R(2)), lam) = RMul(R(4), eps)
        /\ RMul(R(4), EpsCrit(RMul(R(2), len), lam)) = eps
        /\ \A c \in Chords :
              RMul(EpsCrit(SectorLength(c, upper_loc[i], sector_idx), lam),
                   Sq(SectorLength(c, upper_loc[i], sector_idx)))
                  = RMul(eps, Sq(len))
        /\ PositiveLaminate(lam) => RLt(eps, Zero)

\* C12: for fixed D1, D2, D3, E and total thickness, eps_crit is inversely
\* proportional to the square of the sector length
\* chord (loc[idx+1] - loc[idx]): halving the sector length multiplies
\* eps_crit by 4, doubling it divides eps_crit by 4, and eps_crit is negative
\* for positive D terms, E and thickness.
C12_InverseSquareOfSectorLength ==
    "precomp" \in computed =>
        \A i \in Stations :
            /\ InverseSquare(eps_crit_spar[i], i, sector_idx_strain_spar[i])
            /\ InverseSquare(eps_crit_te[i], i, sector_idx_strain_te[i])

\* C12 happens: the spar sector of station 1 is a positive laminate a quarter
\* chord wide on a chord of 2, so sector_length = 1/2, and its critical
\* strain is -2 (22/7)^2 4 (2 + 3) = -19360/49; the trailing-edge sector is
\* the other one
C12_Witness ==
    /\ "precomp" \in computed
    /\ chord[1] = R(2)
    /\ upper_loc[1] = <<Zero, Q(1, 4), One>>
    /\ sector_idx_strain_spar[1] = 0 /\ sector_idx_strain_te[1] = 1
    /\ upper_lam[1][1] = Laminate(1, 4, 1, 1, One, 1)
    /\ eps_crit_spar[1] = Q(0 - 19360, 49)
    /\ eps_crit_te[1] # eps_crit_spar[1]
    /\ RLt(eps_crit_te[1], Zero)

\* ------------------------------------------------------------------------
\* TipDeflection
\* ------------------------------------------------------------------------

\* the angle a + b, both given by cosine and sine
AngleSum(a, b) ==
    [c |-> RSub(RMul(a.c, b.c), RMul(a.s, b.s)),
     s |-> RAdd(RMul(a.s, b.c), RMul(a.c, b.s))]

Deg0 == [c |-> One, s |-> Zero]

Deg90 == [c |-> Zero, s |-> One]

Deg180 == [c |-> RNeg(One), s |-> Zero]

DirectionVector(x, y, z) == [x |-> x, y |-> y, z |-> z]

\* DirectionVector.airfoilToBlade(theta): about z, by -theta
AirfoilToBlade(v, theta) ==
    [x |-> RSub(RMul(v.x, theta.c), RMul(v.y, theta.s)),
     y |-> RAdd(RMul(v.x, theta.s), RMul(v.y, theta.c)),
     z |-> v.z]

\* DirectionVector.azimuthToHub(azimuth): about x, by -azimuth
AzimuthToHub(v, azimuth) ==
    [x |-> v.x,
     y |-> RSub(RMul(v.y, azimuth.c), RMul(v.z, azimuth.s)),
     z |-> RAdd(RMul(v.y, azimuth.s), RMul(v.z, azimuth.c))]

\* DirectionVector.hubToYaw(tilt): about y, by -tilt
HubToYaw(v, tilt) ==
    [x |-> RAdd(RMul(v.x, tilt.c), RMul(v.z, tilt.s)),
     y |-> v.y,
     z |-> RSub(RMul(v.z, tilt.c), RMul(v.x, tilt.s))]

\* bladeToAzimuth(totalConeTip).azimuthToHub(azimuth).hubToYaw(tilt) with
\* azimuth = 180.0
BladeToYaw(v, inp) ==
    HubToYaw(AzimuthToHub(BladeToAzimuth(v, inp.totalConeTip), Deg180),
             inp.tilt)

\* the rotated vector taken from the undeflected tip position
TipDelta_undeflected(inp) ==
    BladeToYaw(DirectionVector(inp.precurveTip, inp.presweepTip, inp.Rtip), inp)

\* theta = theta + pitch; dr = DirectionVector(dx, dy, dz);
\* delta = dr.airfoilToBlade(theta).bladeToAzimuth(totalConeTip)
\*           .azimuthToHub(azimuth).hubToYaw(tilt)
TipDelta(inp) ==
    BladeToYaw(AirfoilToBlade(DirectionVector(inp.dx, inp.dy, inp.dz),
                              AngleSum(inp.theta, inp.pitch)), inp)

\* dR = DirectionVector(precurve, presweep, rtip);
\* blade_yaw = dR.bladeToAzimuth(totalConeTip).azimuthToHub(azimuth)
\*               .hubToYaw(tilt)
BladeYaw(inp) ==
    BladeToYaw(DirectionVector(inp.precurveTip, inp.presweepTip, inp.Rtip), inp)

\* the outputs from delta and blade_yaw:
\*   tip_deflection = dynamicFactor * delta.x
\*   coeff = 1.0 if upwind else -1.0
\*   z_pos = hubHt + blade_yaw.z
\*   x_pos = coeff*blade_yaw.x + gamma_m * tip_deflection
TipOutputsOf(inp, delta, blade_yaw) ==
    [tip_deflection |-> RMul(inp.dynamicFactor, delta.x),
     tip_position |->
        <<RAdd(RMul(IF ~inp.downwind THEN One ELSE RNeg(One), blade_yaw.x),
               RMul(inp.gamma_m, RMul(inp.dynamicFactor, delta.x))),
          Zero,
          RAdd(inp.hubHt, blade_yaw.z)>>,
     ground_clearance |-> RAdd(inp.hubHt, blade_yaw.z)]

\* what TipDeflection.compute outputs for the inputs inp
TipOutputs(inp) == TipOutputsOf(inp, TipDelta(inp), BladeYaw(inp))

TipDeflectionCompute ==
    /\ "tip_deflection" \notin computed
    /\ computed' = computed \cup {"tip_deflection"}
    /\ \E out \in {TipOutputs(tip_inputs)} :
          /\ tip_deflection' = out.tip_deflection
          /\ tip_position' = out.tip_position
          /\ ground_clearance' = out.ground_clearance
    /\ UNCHANGED <<resizeVars, strucInputs, strucFields, strucOutputs, paInputs,
                   curvVars, rootVars, cfemVars, freq_curvefem, consInputs,
                   consOutputs, precompVars, tip_inputs, extremeVars, outsVars>>

\* tip displacements in the airfoil frame
TipDisplacements ==
    {<<Zero, Zero, Zero>>, <<One, Zero, Zero>>, <<Zero, One, Zero>>,
     <<One, R(2), R(2)>>}

\* angles with a rational cosine and sine
Twists == {Deg0, [c |-> Q(3, 5), s |-> Q(4, 5)]}

Pitches == {Deg0, Deg90}

Tilts == {Deg0, [c |-> Q(4, 5), s |-> Q(3, 5)]}

Cones == {Deg0, [c |-> Q(3, 5), s |-> Q(0 - 4, 5)]}

MaterialFactors == {One, Q(11, 10)}

DynamicFactors == {One, Q(6, 5)}

InitTip ==
    /\ tip_inputs \in
          {[dx |-> d[1], dy |-> d[2], dz |-> d[3], theta |-> th, pitch |-> pi,
            tilt |-> ti, totalConeTip |-> co, hubHt |-> R(90), downwind |-> dw,
            Rtip |-> R(5), precurveTip |-> One, presweepTip |-> Zero,
            gamma_m |-> gm, dynamicFactor |-> df] :
              d \in TipDisplacements, th \in Twists, pi \in Pitches,
              ti \in Tilts, co \in Cones, dw \in BOOLEAN,
              gm \in MaterialFactors, df \in DynamicFactors}
    /\ tip_deflection = Zero /\ tip_position = <<Zero, Zero, Zero>>
    /\ ground_clearance = Zero
    /\ ResizeIdle /\ StrucIdle /\ FieldsNone /\ PaIdle /\ CurvIdle /\ RootIdle
    /\ CfemIdle /\ freq_curvefem = <<>> /\ ConsIdle /\ PrecompIdle /\ ExtremeIdle /\ OutsIdle
    /\ computed = {}

NextTip == TipDeflectionCompute

SpecTip == InitTip /\ [][NextTip]_vars

ZeroVector == DirectionVector(Zero, Zero, Zero)

\* C13: tip_deflection is the yaw-frame x-component of the rotated tip
\* displacement scaled by dynamicFactor and includes the materials safety
\* margin gamma_m, so that changing gamma_m changes tip_deflection whenever
\* the rotated displacement is non-zero.
C13_GammaMChangesDeflection ==
    ("tip_deflection" \in computed /\ TipDelta(tip_inputs) # ZeroVector) =>
        \A g \in MaterialFactors \ {tip_inputs.gamma_m} :
            TipOutputs([tip_inputs EXCEPT !.gamma_m = g]).tip_deflection
                # tip_deflection

\* C14: for otherwise identical inputs the x-component of tip_position of a
\* downwind rotor is the negative of that of an upwind rotor, and the
\* z-component and ground_clearance are the same for both.
C14_DownwindMirrorsUpwind ==
    "tip_deflection" \in computed =>
        \E other \in {TipOutputs([tip_inputs EXCEPT !.downwind = ~@])} :
            /\ other.tip_position[1] = RNeg(tip_position[1])
            /\ other.tip_position[3] = tip_position[3]
            /\ other.ground_clearance = ground_clearance

\* C15: tip_deflection = 0 whenever the tip displacement (dx, dy, dz) is
\* zero, for every twist, pitch, tilt, total cone angle, dynamicFactor and
\* upwind or downwind rotor.
C15_ZeroDisplacementZeroDeflection ==
    ( /\ "tip_deflection" \in computed
      /\ tip_inputs.dx = Zero /\ tip_inputs.dy = Zero /\ tip_inputs.dz = Zero )
        => tip_deflection = Zero

\* C15 happens: compute has run on a zero displacement with twist, pitch,
\* tilt and cone all non-zero, an amplification of 6/5 and a downwind rotor
C15_Witness ==
    /\ "tip_deflection" \in computed
    /\ tip_inputs.dx = Zero /\ tip_inputs.dy = Zero /\ tip_inputs.dz = Zero
    /\ tip_inputs.theta # Deg0 /\ tip_inputs.pitch # Deg0
    /\ tip_inputs.tilt # Deg0 /\ tip_inputs.totalConeTip # Deg0
    /\ tip_inputs.dynamicFactor = Q(6, 5) /\ tip_inputs.downwind
    /\ tip_deflection = Zero
    /\ tip_position[1] # Zero /\ ground_clearance # Zero

\* ------------------------------------------------------------------------
\* RotorWithpBEAM: the load cases of the solver queries
\* ------------------------------------------------------------------------

\* the loads of the Beam instances of which compute asked the given method
QueriedWith(method) ==
    {beam_queries[k].loads :
        k \in {j \in DOMAIN beam_queries : beam_queries[j].query = method}}

\* C16: RotorWithpBEAM recovers strain at the four fixed points per station
\* for both the deflection load case (Px_defl, Py_defl, Pz_defl) and the
\* strain load case (Px_strain, Py_strain, Pz_strain): compute asks the
\* resultants, from which strain is recovered, of a Beam of each of the two.
C16_StrainForBothLoadCases ==
    StrucComputed =>
        /\ P_strain \in QueriedWith("shearAndBending")
        /\ P_defl \in QueriedWith("shearAndBending")

\* C17: blade_mass and blade_moment_of_inertia come from a Beam instance
\* that was constructed with zero distributed load, in every execution.
C17_MassFromUnloadedBeam ==
    StrucComputed =>
        /\ QueriedWith("mass") = {ZeroLoads}
        /\ QueriedWith("outOfPlaneMomentOfInertia") = {ZeroLoads}

\* ------------------------------------------------------------------------
\* Degenerate inputs
\* ------------------------------------------------------------------------

\* the spar or the trailing-edge sector of the upper stack of station i had
\* thicknesses summing to zero when the latest call of
\* ResizeCompositeSection.compute scaled it (zero stays zero under the
\* scaling by chord / chord_ref)
ZeroSumSector(i) ==
    \/ BaseSum(upperCS_in[i], sector_idx_strain_spar[i]) = Zero
    \/ BaseSum(upperCS_in[i], sector_idx_strain_te[i]) = Zero

\* every thickness of the stack held by the object o is a finite number
FiniteStack(o) ==
    \A k \in DOMAIN heap[o] : \A m \in DOMAIN heap[o][k] : IsFinite(heap[o][k][m])

\* C18: if the spar or trailing-edge sector of some station has ply
\* thicknesses summing to zero, ResizeCompositeSection.compute fails with a
\* GeometryError: it binds no outputs, and no stack holds an infinite or NaN
\* thickness.
C18_ZeroSumSectorRejected ==
    (resize_calls >= 1 /\ \E i \in Stations : ZeroSumSector(i)) =>
        /\ upperCS = <<>> /\ lowerCS = <<>> /\ websCS = <<>>
        /\ \A o \in Objects : FiniteStack(o)

\* the station has no axial or no principal bending stiffness
SingularStiffness(i) == EA[i] = Zero \/ EI11[i] = Zero \/ EI22[i] = Zero

\* a damage output, a logarithm, is a finite number
FiniteLn(d) == IsFinite(d.ln) /\ d.ln # Zero

\* C19: if EA, EI11 or EI22 is zero at a station, strain and damage
\* recovery fails with a SingularStiffnessError: compute returns no
\* infinite or NaN strain or damage for that station.
C19_SingularStiffnessRejected ==
    StrucComputed =>
        \A i \in Stations :
            SingularStiffness(i) =>
                /\ IsFinite(strainU_spar[i]) /\ IsFinite(strainL_spar[i])
                /\ IsFinite(strainU_te[i]) /\ IsFinite(strainL_te[i])
                /\ FiniteLn(damageU_spar[i]) /\ FiniteLn(damageL_spar[i])
                /\ FiniteLn(damageU_te[i]) /\ FiniteLn(damageL_te[i])

\* a station of the structural grid r_pts lies outside the range of the
\* grid aeroloads_r of the RootMoment component k
OutOfAeroRange(k) ==
    \E i \in DOMAIN root_geom.r_pts :
        \/ RLt(root_geom.r_pts[i], aeroloads[k].r[1])
        \/ RLt(aeroloads[k].r[Len(aeroloads[k].r)], root_geom.r_pts[i])

\* C20: if a structural grid point r[i] lies outside the range of
\* aeroloads_r, RootMoment.compute (and TotalLoads.compute) fails with an
\* InterpolationDomainError rather than producing loads by extrapolation or
\* clamping: the outputs keep the values they were declared with.
C20_OutOfRangeRejected ==
    \A k \in RootMoments :
        (k \in computed /\ OutOfAeroRange(k)) =>
            /\ Fxyz[k] = <<Zero, Zero, Zero>>
            /\ Mxyz[k] = <<Zero, Zero, Zero>>

\* ------------------------------------------------------------------------
\* CurveFEM: a fit that fails
\* ------------------------------------------------------------------------

\* C21: if the least-squares fit of any of the three mode shapes fails,
\* CurveFEM.compute surfaces an error to its caller and none of its outputs
\* (freq, and the modes_coef rows fitted earlier in the call) has been
\* updated: they hold the values they were declared with.
C21_FailedFitUpdatesNothing ==
    /\ "curvefem" \in computed => FirstFailure(fit_coef) = 0
    /\ cfem_raised # {} =>
          /\ freq_curvefem = [k \in 1..NFREQ |-> Zero]
          /\ modes_coef = [row \in 1..3 |-> [j \in 1..5 |-> Zero]]

\* ------------------------------------------------------------------------
\* RotorWithpBEAM: the renaming in principalCS
\* ------------------------------------------------------------------------

\* the instance fields of station i after compute
FieldsAt(i) ==
    [EA |-> EA[i], EI11 |-> EI11[i], EI22 |-> EI22[i], ca |-> ca[i], sa |-> sa[i]]

\* C22: principalCS exchanges the roles of x and y: its local EIxx is the
\* caller's beam:EIyy, its local EIyy the caller's beam:EIxx, its local x_ec
\* and y_ec the caller's beam:y_ec and beam:x_ec, before the translation to
\* the elastic center; alpha, EI11 and EI22 so depend on both bending
\* stiffnesses and on both offsets.
C22_RolesExchanged ==
    StrucComputed =>
        \A i \in Stations :
            FieldsAt(i) = TranslateAndRotate(beam_EIyy[i], beam_EIxx[i],
                                             beam_y_ec[i], beam_x_ec[i],
                                             beam_EA[i], beam_EIxy[i])

\* ------------------------------------------------------------------------
\* OutputsStructures and the frames of the vectors it rotates
\* ------------------------------------------------------------------------

\* the chain of frames and the frames each rotation of DirectionVector
\* starts from and ends in
SourceFrame ==
    [airfoilToBlade |-> "airfoil", bladeToAzimuth |-> "blade",
     azimuthToHub |-> "azimuth", hubToYaw |-> "hub"]

TargetFrame ==
    [airfoilToBlade |-> "blade", bladeToAzimuth |-> "azimuth",
     azimuthToHub |-> "hub", hubToYaw |-> "yaw"]

\* the frame of a rotated vector: the rotation's target frame, whatever
\* frame the vector was in (DirectionVector carries no frame and checks none)
FrameAfter(op, frame) == TargetFrame[op]

\* the frames of the outputs of RootMoment.compute: Fx, Fy, Fz are integrals
\* of the interpolated blade-aligned loads Px, Py, Pz as they are; Mx, My, Mz
\* are integrals of az.cross(P), the loads P rotated by bladeToAzimuth and
\* the positions az given in the azimuth frame
RootMomentFrames ==
    [Fxyz |-> "blade", Mxyz |-> FrameAfter("bladeToAzimuth", "blade")]

\* angles = np.linspace(0, 360, nBlades+1); angles[row], row counted from 0,
\* for the numbers of blades whose angles have a rational cosine and sine
BladeAngle(row, n) ==
    CASE (row * (4 \div n)) % 4 = 0 -> Deg0
      [] (row * (4 \div n)) % 4 = 1 -> Deg90
      [] (row * (4 \div n)) % 4 = 2 -> Deg180
      [] OTHER -> [c |-> Zero, s |-> RNeg(One)]

\* DirectionVector.fromArray(v).azimuthToHub(angle).toArray()
ArrayToHub(v, angle) ==
    <<AzimuthToHub(DirectionVector(v[1], v[2], v[3]), angle).x,
      AzimuthToHub(DirectionVector(v[1], v[2], v[3]), angle).y,
      AzimuthToHub(DirectionVector(v[1], v[2], v[3]), angle).z>>

ArraySum(a, b) == <<RAdd(a[1], b[1]), RAdd(a[2], b[2]), RAdd(a[3], b[3])>>

\* the summation with the loop running over all six rows
RECURSIVE HubTotal_allRows(_, _, _)
HubTotal_allRows(rows, n, row) ==
    IF row > Len(rows) THEN <<Zero, Zero, Zero>>
    ELSE ArraySum(ArrayToHub(rows[row], BladeAngle(row - 1, n)),
                  HubTotal_allRows(rows, n, row + 1))

\* for row in range(nBlades): F_hub_tot += myF.toArray(), from the row
\* numbered row (from 1) on
RECURSIVE HubTotal(_, _, _)
HubTotal(rows, n, row) ==
    IF row > n THEN <<Zero, Zero, Zero>>
    ELSE ArraySum(ArrayToHub(rows[row], BladeAngle(row - 1, n)),
                  HubTotal(rows, n, row + 1))

\* OutputsStructures.compute, its root load outputs: the six inputs are
\* copied to the outputs and the first nBlades of them, taken as azimuth
\* frame vectors, are rotated to the hub frame and summed. The vectors are
\* those of the RootMoment components connected to the inputs.
OutputsStructuresCompute ==
    /\ "outputs" \notin computed
    /\ computed' = computed \cup {"outputs"}
    /\ Fxyz_k' = outs_inputs.Fxyz_in
    /\ Mxyz_k' = outs_inputs.Mxyz_in
    /\ Fxyz_total' = HubTotal(outs_inputs.Fxyz_in, outs_inputs.nBlades, 1)
    /\ Mxyz_total' = HubTotal(outs_inputs.Mxyz_in, outs_inputs.nBlades, 1)
    /\ frame_uses' = {[op |-> "azimuthToHub", vector |-> w,
                       frame |-> RootMomentFrames[w]] : w \in {"Fxyz", "Mxyz"}}
    /\ UNCHANGED <<resizeVars, strucInputs, strucFields, strucOutputs, paInputs,
                   curvVars, rootVars, cfemVars, freq_curvefem, consInputs,
                   consOutputs, precompVars, tipVars, outs_inputs, extremeVars>>

\* ExtremeLoads.compute: the thrust at the survival wind condition, one blade
\* at the worst case and the others feathered
ExtremeThrust(pair, n) ==
    RDiv(RAdd(pair[1], RMul(pair[2], R(n - 1))), R(n))

\* ExtremeLoads.compute: T_extreme is the value computed from T; Q_extreme
\* is computed from Q in a local that is dropped, the output is set to 0.0
ExtremeLoadsCompute ==
    /\ "extreme" \notin computed
    /\ computed' = computed \cup {"extreme"}
    /\ T_extreme' = ExtremeThrust(extreme_inputs.T, extreme_inputs.nBlades)
    /\ Q_extreme' = Zero
    /\ UNCHANGED <<resizeVars, strucInputs, strucFields, strucOutputs, paInputs,
                   curvVars, rootVars, cfemVars, freq_curvefem, consInputs,
                   consOutputs, precompVars, tipVars, outsVars, extreme_inputs>>

\* thrust and torque pairs: index 0 at the worst case, index 1 feathered
ExtremePairs == {<<R(6), R(3)>>, <<R(9), Zero>>}

\* root load vectors of a blade
RootVectors ==
    {<<One, Zero, Zero>>, <<Zero, One, R(2)>>, <<One, R(2), R(3)>>}

\* numbers of blades with azimuths that are multiples of 90 degrees
BladeCounts == {1, 2, 4}

InitOutputs ==
    /\ \E n \in BladeCounts, f1, f2, f5, m3 \in RootVectors :
          outs_inputs =
              [nBlades |-> n,
               Fxyz_in |-> <<f1, f2, <<Zero, R(2), One>>, <<R(3), One, Zero>>,
                             f5, <<One, One, One>>>>,
               Mxyz_in |-> <<<<R(2), Zero, One>>, <<Zero, R(3), One>>, m3,
                             <<One, R(4), Zero>>, <<Zero, One, One>>,
                             <<R(2), R(2), One>>>>]
    \* add_output(..., val=np.zeros((3,)))
    /\ Fxyz_k = [k \in 1..6 |-> <<Zero, Zero, Zero>>]
    /\ Mxyz_k = [k \in 1..6 |-> <<Zero, Zero, Zero>>]
    /\ Fxyz_total = <<Zero, Zero, Zero>> /\ Mxyz_total = <<Zero, Zero, Zero>>
    /\ frame_uses = {}
    /\ \E thrust \in ExtremePairs, torque \in ExtremePairs, n \in {2, 3} :
          extreme_inputs = [T |-> thrust, Q |-> torque, nBlades |-> n]
    \* add_output('T_extreme', val=0.0), add_output('Q_extreme', val=0.0)
    /\ T_extreme = Zero /\ Q_extreme = Zero
    /\ ResizeIdle /\ StrucIdle /\ FieldsNone /\ PaIdle /\ CurvIdle /\ RootIdle
    /\ CfemIdle /\ freq_curvefem = <<>> /\ ConsIdle /\ PrecompIdle /\ TipIdle
    /\ computed = {}

NextOutputs == OutputsStructuresCompute \/ ExtremeLoadsCompute

SpecOutputs == InitOutputs /\ [][NextOutputs]_vars

\* C23: every frame rotation is applied to a vector that is expressed in
\* the rotation's source frame of the chain airfoil, blade, azimuth, hub,
\* yaw; in particular the per-blade root forces Fxyz and moments Mxyz are in
\* the azimuth frame when OutputsStructures rotates them with azimuthToHub.
C23_RotationsFromSourceFrame ==
    \A u \in frame_uses : u.frame = SourceFrame[u.op]

\* hub-frame components of a vector rotated about x by a multiple q of 90
\* degrees, written out
QuarterTurn(v, q) ==
    CASE q % 4 = 0 -> v
      [] q % 4 = 1 -> <<v[1], RNeg(v[3]), v[2]>>
      [] q % 4 = 2 -> <<v[1], RNeg(v[2]), RNeg(v[3])>>
      [] OTHER -> <<v[1], v[3], RNeg(v[2])>>

\* the sum over the first n blades, blade k (from 0) at azimuth k 360/n
ExpectedTotal(rows, n) ==
    IF n = 1 THEN rows[1]
    ELSE IF n = 2 THEN ArraySum(rows[1], QuarterTurn(rows[2], 2))
    ELSE ArraySum(ArraySum(rows[1], QuarterTurn(rows[2], 1)),
                  ArraySum(QuarterTurn(rows[3], 2), QuarterTurn(rows[4], 3)))

\* C25: Fxyz_total and Mxyz_total are the sums over exactly the first
\* nBlades of the six blade inputs of the vector rotated azimuth-to-hub at
\* azimuth k 360/nBlades (k = 0..nBlades-1); inputs with index >= nBlades
\* contribute nothing, and each Fxyz_k, Mxyz_k equals its input.
C25_TotalsOverFirstBlades ==
    "outputs" \in computed =>
        /\ Fxyz_total = ExpectedTotal(outs_inputs.Fxyz_in, outs_inputs.nBlades)
        /\ Mxyz_total = ExpectedTotal(outs_inputs.Mxyz_in, outs_inputs.nBlades)
        /\ \A k \in 1..6 : /\ Fxyz_k[k] = outs_inputs.Fxyz_in[k]
                            /\ Mxyz_k[k] = outs_inputs.Mxyz_in[k]

\* C25 happens: two blades, the second at 180 degrees, and non-zero
\* vectors on the inputs 3 to 6 that the totals leave out
C25_Witness ==
    /\ "outputs" \in computed
    /\ outs_inputs.nBlades = 2
    /\ outs_inputs.Fxyz_in[1] = <<One, R(2), R(3)>>
    /\ outs_inputs.Fxyz_in[2] = <<Zero, One, R(2)>>
    /\ \A k \in 3..6 : outs_inputs.Fxyz_in[k] # <<Zero, Zero, Zero>>
    /\ Fxyz_total = <<One, One, One>>
    /\ Mxyz_total = <<R(2), R(0 - 3), Zero>>

\* C26: Q_extreme is the blade-count weighted combination of the two torque
\* inputs, (Q[0] + Q[1] (nBlades - 1)) / nBlades, as T_extreme is of the two
\* thrust inputs.
C26_TorqueCombinedAsThrust ==
    "extreme" \in computed =>
        /\ T_extreme = ExtremeThrust(extreme_inputs.T, extreme_inputs.nBlades)
        /\ Q_extreme = ExtremeThrust(extreme_inputs.Q, extreme_inputs.nBlades)

\* the positions of the trace at which strain or damage read the fields
FieldReads == {k \in DOMAIN field_trace : field_trace[k].access = "read"}

\* C27: in every execution of RotorWithpBEAM.compute principalCS has assigned
\* EI11, EI22, EA, ca and sa before the first call of strain() or damage():
\* no call reads a field that is still None, and all the strain and damage
\* calls of the execution read the same values, those principalCS assigned.
C27_FieldsAssignedBeforeRead ==
    \A k \in FieldReads :
        /\ \E j \in 1..(k - 1) : field_trace[j].access = "assign"
        /\ \A name \in {"EI11", "EI22", "EA", "ca", "sa"} :
              field_trace[k].fields[name] # None
        /\ \A j \in FieldReads : field_trace[j].fields = field_trace[k].fields
        /\ field_trace[k].fields = Fields(EI11, EI22, EA, ca, sa)

\* C27 happens: compute ran, its two strain calls and two damage calls read
\* the fields, and the fields hold a rotated principal system (sa # 0)
C27_Witness ==
    /\ StrucComputed
    /\ Cardinality(FieldReads) = 4
    /\ field_trace[1].call = "principalCS"
    /\ \E i \in Stations : field_trace[2].fields.sa[i] # Zero

\* the points of station i that enter the principal-axis rotation of strain()
\* and damage() when called with the spar cap outputs of PreCompSections
SparPointsEntering(i) ==
    ProfilePoints(xu_strain_spar[i], yu_strain_spar[i],
                  xl_strain_spar[i], yl_strain_spar[i])

TePointsEntering(i) ==
    ProfilePoints(xu_strain_te[i], yu_strain_te[i],
                  xl_strain_te[i], yl_strain_te[i])

\* C28: the exchange of x and y at the end of criticalStrainLocations is
\* undone by the exchange at the start of strain() and damage(): the points
\* (x, y) that enter the principal-axis rotation are the profile-frame
\* coordinates xn*chord - x_ec_nose and yn*chord - y_ec_nose of the sector
\* midpoint, on the upper and on the lower surface.
C28_ExchangeUndone ==
    "precomp" \in computed =>
        \A i \in Stations :
            /\ SparPointsEntering(i)
                   = ProfileLocations(i, sector_idx_strain_spar[i])
            /\ TePointsEntering(i)
                   = ProfileLocations(i, sector_idx_strain_te[i])

\* C28 happens: PreCompSections ran and a strain point has different x and y
\* (chord 2, spar cap in sector 0 between 0 and 1/2: in the profile frame
\* xu = 2/4 - 1/4 = 1/4 and yu = 2/8 - 1/16 = 3/16)
C28_Witness ==
    /\ "precomp" \in computed
    /\ chord[1] = R(2) /\ sector_idx_strain_spar[1] = 0
    /\ upper_loc[1] = <<Zero, Q(1, 2), One>>
    /\ yu_strain_spar[1] = Q(1, 4) /\ xu_strain_spar[1] = Q(3, 16)
    /\ SparPointsEntering(1).xu = Q(1, 4)

\* PreCompSections and ConstraintsStructures in the order of the data flow
\* of RotorStructure: eps_crit_spar and eps_crit_te of the one are inputs of
\* the other
ConstraintsAfterPreComp ==
    /\ "precomp" \in computed /\ "constraints" \notin computed
    /\ ConstraintsCompute

InitMargins ==
    /\ chord \in [Stations -> Chords]
    /\ upper_loc \in [Stations -> SectorBounds]
    /\ upper_lam \in [Stations -> SectorLaminates]
    /\ lower_loc = [i \in Stations |-> <<Zero, Q(1, 2), One>>]
    /\ lower_lam \in [Stations -> LowerLaminates]
    /\ profile = [i \in Stations |-> Airfoil]
    /\ ec_nose = [i \in Stations |-> [x |-> Q(1, 4), y |-> Q(1, 16)]]
    /\ sector_idx_strain_spar \in [Stations -> SectorIdx]
    /\ sector_idx_strain_te = [i \in Stations |-> 1]
    /\ heap = <<>> /\ chord_ref = <<>> /\ sparT = <<>> /\ teT = <<>>
    /\ upperCS_in = <<>> /\ lowerCS_in = <<>> /\ websCS_in = <<>>
    /\ upperCS = <<>> /\ lowerCS = <<>> /\ websCS = <<>>
    /\ resize_calls = 0 /\ t_prev = <<>> /\ t_first = <<>>
    \* add_output('eps_crit_spar', val=np.zeros(NPTS)), ...
    /\ eps_crit_spar = [i \in Stations |-> Zero]
    /\ eps_crit_te = [i \in Stations |-> Zero]
    /\ xu_strain_spar = [i \in Stations |-> Zero]
    /\ xl_strain_spar = [i \in Stations |-> Zero]
    /\ yu_strain_spar = [i \in Stations |-> Zero]
    /\ yl_strain_spar = [i \in Stations |-> Zero]
    /\ xu_strain_te = [i \in Stations |-> Zero]
    /\ xl_strain_te = [i \in Stations |-> Zero]
    /\ yu_strain_te = [i \in Stations |-> Zero]
    /\ yl_strain_te = [i \in Stations |-> Zero]
    \* the inputs of ConstraintsStructures
    /\ strainU_spar = [i \in Stations |-> Q(0 - 1, 2)]
    /\ strainL_spar = [i \in Stations |-> Q(1, 4)]
    /\ strainU_te = [i \in Stations |-> Q(0 - 1, 8)]
    /\ strainL_te = [i \in Stations |-> Q(1, 16)]
    /\ gamma_f = R(2) /\ gamma_m = Q(3, 2) /\ gamma_freq = Q(11, 10)
    /\ strain_ult_spar = Q(1, 100) /\ strain_ult_te = Q(1, 400)
    /\ nBlades = 3 /\ Omega = R(12)
    /\ freq = [k \in 1..NFREQ |-> R(k)]
    /\ freq_curvefem = [k \in 1..NFREQ |-> R(k + 1)]
    /\ damageU_spar = [i \in Stations |-> Ln(Q(1, 2))]
    /\ damageL_spar = [i \in Stations |-> Ln(Q(1, 3))]
    /\ damageU_te = [i \in Stations |-> Ln(Q(1, 4))]
    /\ damageL_te = [i \in Stations |-> Ln(Q(1, 5))]
    /\ Pn_margin = [k \in 1..NFREQ |-> Zero]
    /\ P1_margin = [k \in 1..NFREQ |-> Zero]
    /\ Pn_margin_cfem = [k \in 1..NFREQ |-> Zero]
    /\ P1_margin_cfem = [k \in 1..NFREQ |-> Zero]
    /\ rotor_strain_sparU = [i \in Stations |-> Zero]
    /\ rotor_strain_sparL = [i \in Stations |-> Zero]
    /\ rotor_strain_teU = [i \in Stations |-> Zero]
    /\ rotor_strain_teL = [i \in Stations |-> Zero]
    /\ rotor_buckling_sparU = [i \in Stations |-> Zero]
    /\ rotor_buckling_sparL = [i \in Stations |-> Zero]
    /\ rotor_buckling_teU = [i \in Stations |-> Zero]
    /\ rotor_buckling_teL = [i \in Stations |-> Zero]
    /\ rotor_damage_sparU = [i \in Stations |-> Zero]
    /\ rotor_damage_sparL = [i \in Stations |-> Zero]
    /\ rotor_damage_teU = [i \in Stations |-> Zero]
    /\ rotor_damage_teL = [i \in Stations |-> Zero]
    /\ J_Omega = <<>>
    /\ computed = {}
    /\ beam_EA = <<>> /\ beam_EIxx = <<>> /\ beam_EIyy = <<>> /\ beam_EIxy = <<>>
    /\ beam_x_ec = <<>> /\ beam_y_ec = <<>>
    /\ Mx_damage = <<>> /\ My_damage = <<>>
    /\ gamma_fatigue = Zero /\ m_damage = 0 /\ lifetime = Zero
    /\ shearAndBending = <<>>
    /\ P_defl = <<>> /\ P_pc_defl = <<>> /\ P_strain = <<>>
    /\ beam_queries = <<>> /\ field_trace = <<>>
    /\ FieldsNone /\ PaIdle /\ CurvIdle /\ RootIdle /\ CfemIdle
    /\ TipIdle /\ ExtremeIdle /\ OutsIdle

NextMargins == PanelBucklingCompute \/ ConstraintsAfterPreComp

SpecMargins == InitMargins /\ [][NextMargins]_vars

\* stacks the lower surface can be given
LowerStacks ==
    {[loc |-> [i \in Stations |-> b], lam |-> l] :
        b \in SectorBounds, l \in [Stations -> LowerLaminates]}

\* eps_crit of a run of panelBucklingStrain that differs in lowerCS only
EpsCritWithLower(other, sector_idx_strain) ==
    panelBucklingStrain([DiscreteInputs EXCEPT !.lowerCS = other],
                        sector_idx_strain)

\* C29: eps_crit_spar and eps_crit_te depend on the upper-surface laminate
\* only: a run of panelBucklingStrain that differs in nothing but the stack
\* lowerCS returns the same eps_crit, and ConstraintsStructures divides both
\* the upper-surface and the lower-surface strain by that same eps_crit to
\* form the buckling margins.
C29_LowerStackIgnored ==
    \A other \in LowerStacks :
        /\ "precomp" \in computed =>
              /\ eps_crit_spar = EpsCritWithLower(other, sector_idx_strain_spar)
              /\ eps_crit_te = EpsCritWithLower(other, sector_idx_strain_te)
        /\ "constraints" \in computed =>
              \A i \in Stations :
                  /\ rotor_buckling_sparU[i] = BucklingMargin(strainU_spar[i], gamma_f,
                        EpsCritWithLower(other, sector_idx_strain_spar)[i])
                  /\ rotor_buckling_sparL[i] = BucklingMargin(strainL_spar[i], gamma_f,
                        EpsCritWithLower(other, sector_idx_strain_spar)[i])
                  /\ rotor_buckling_teU[i] = BucklingMargin(strainU_te[i], gamma_f,
                        EpsCritWithLower(other, sector_idx_strain_te)[i])
                  /\ rotor_buckling_teL[i] = BucklingMargin(strainL_te[i], gamma_f,
                        EpsCritWithLower(other, sector_idx_strain_te)[i])

\* C29 happens: PreCompSections ran with a lower stack that differs from the
\* upper stack in its laminates and its sector boundaries, and
\* ConstraintsStructures formed finite, different buckling margins for the
\* two surfaces of the spar cap
C29_Witness ==
    /\ "precomp" \in computed /\ "constraints" \in computed
    /\ lower_lam[1] # upper_lam[1] /\ lower_loc[1] # upper_loc[1]
    /\ eps_crit_spar[1] # Zero /\ IsFinite(eps_crit_spar[1])
    /\ IsFinite(rotor_buckling_sparU[1])
    /\ rotor_buckling_sparU[1] # rotor_buckling_sparL[1]

\* the margin of frequency k at the rotor speed Omega + d (rpm), by the
\* forward formula of compute
MarginAt(n, d, f, k) ==
    FreqMargin(n, RDiv(RAdd(Omega, d), R(60)), gamma_freq, f)[k]

\* C30: the partial derivatives of Pn_margin, P1_margin, Pn_margin_cfem and
\* P1_margin_cfem with respect to Omega (rpm) that ConstraintsStructures
\* reports are the derivatives of the forward formula, which is linear in
\* Omega: a change d of Omega changes each margin by J * d.
C30_OmegaPartials ==
    "constraints" \in computed =>
        \A d \in {One, R(6)} : \A k \in 1..NFREQ :
            /\ RSub(MarginAt(R(nBlades), d, freq, k), Pn_margin[k])
                   = RMul(J_Omega.Pn_margin[k], d)
            /\ RSub(MarginAt(One, d, freq, k), P1_margin[k])
                   = RMul(J_Omega.P1_margin[k], d)
            /\ RSub(MarginAt(R(nBlades), d, freq_curvefem, k), Pn_margin_cfem[k])
                   = RMul(J_Omega.Pn_margin_cfem[k], d)
            /\ RSub(MarginAt(One, d, freq_curvefem, k), P1_margin_cfem[k])
                   = RMul(J_Omega.P1_margin_cfem[k], d)

\* ------------------------------------------------------------------------
\* RotorWithpBEAM.compute, its blocks and what they share
\* ------------------------------------------------------------------------

\* the blocks of compute: the displacement of the deflection load case, the
\* displacement of the power-curve deflection load case, the queries of
\* mass, moment of inertia and natural frequencies, the strain load case
\* (principalCS, the Beam of the strain loads and the two calls of strain)
\* and the two calls of damage
Blocks == {"defl", "pc_defl", "modal", "strain", "damage"}

\* the order of the blocks in the code
ComputeBlocks == <<"defl", "pc_defl", "modal", "strain", "damage">>

\* what the blocks share before the first of them: the local blade is not
\* bound, the instance fields hold what compute started with
BlocksStart(before) ==
    [blade |-> None, fields |-> before, results |-> [b \in Blocks |-> None]]

\* one block run on what the blocks before it left: the load cases bind the
\* local blade to a new Beam of their loads, the modal queries are made on
\* the Beam blade is bound to, the strain block assigns the instance fields
\* and damage reads them
RunBlock(b, st, new) ==
    CASE b = "defl" ->
           [st EXCEPT !.blade = P_defl,
                      !.results[b] = <<Query("displacement", P_defl)>>]
      [] b = "pc_defl" ->
           [st EXCEPT !.blade = P_pc_defl,
                      !.results[b] = <<Query("displacement", P_pc_defl)>>]
      [] b = "modal" ->
           [st EXCEPT !.results[b] =
               <<Query("mass", st.blade),
                 Query("outOfPlaneMomentOfInertia", st.blade),
                 Query("naturalFrequencies", st.blade)>>]
      [] b = "strain" ->
           [st EXCEPT !.blade = P_strain, !.fields = new,
                      !.results[b] = <<Query("shearAndBending", P_strain), new>>]
      [] OTHER ->
           [st EXCEPT !.results[b] = <<st.fields>>]

\* the first k blocks of an order run one after the other
RECURSIVE RunBlocks(_, _, _, _)
RunBlocks(order, k, before, new) ==
    IF k = 0 THEN BlocksStart(before)
    ELSE RunBlock(order[k], RunBlocks(order, k - 1, before, new), new)

\* the results of the blocks run in an order, in a first execution of
\* compute (fields None) that assigns the fields the instance now holds
ResultsOf(order) ==
    RunBlocks(order, Len(order), Fields(None, None, None, None, None),
              Fields(EI11, EI22, EA, ca, sa)).results

\* every order of the blocks
BlockOrders ==
    {o \in [1..Cardinality(Blocks) -> Blocks] :
        \A b \in Blocks : \E k \in DOMAIN o : o[k] = b}

\* C24: the results of the load cases of RotorWithpBEAM.compute do not
\* depend on the order of evaluation: the deflection, power-curve
\* deflection and strain load cases and the mass, inertia, frequency and
\* damage queries evaluated in any order give the results of the order of
\* the code, no block reading what another one wrote.
C24_OrderIndependent ==
    StrucComputed =>
        \A o \in BlockOrders : ResultsOf(o) = ResultsOf(ComputeBlocks)

====
